---- MODULE Spec2Model ----
(***************************************************************************)
(* Model of the python-ivi base driver runtime (src/ivi/ivi.py):           *)
(*   - the IEEE-488.2 binary block codec (build_ieee_block,                *)
(*     decode_ieee_block), specification SpecCodec;                        *)
(*   - the Driver session: initialize / close, the option flags, the       *)
(*     attribute cache and the I/O primitives, specification Spec.         *)
(*                                                                         *)
(* Byte strings are run-length coded: a buffer is a sequence of runs       *)
(* [b |-> byte, n |-> count] in normal form (no empty run, no two adjacent *)
(* runs of the same byte), so that equality of buffers is equality of      *)
(* byte strings and payloads of 10^8 bytes are representable.              *)
(***************************************************************************)
EXTENDS Integers, Sequences, FiniteSets, TLC

\* ------------------------------------------------------------------ bounds
\* longest byte string enumerated byte by byte
MaxLen == 5
\* largest payload length announced by the enumerated well-formed headers
MaxNum == 4
\* length of the long payloads (one run of equal bytes), and the one below it
LongLen == 100000000
\* the transport calls of one operation that may be made to fail: the first MaxFail
MaxFail == 2

\* ------------------------------------------------------------ byte values
\* '#' and '0'; the letters 'A', 'D', 'T' of the payloads
HASH == 35
ZERO == 48
CH_A == ZERO + 17
CH_D == ZERO + 20
CH_T == ZERO + 36

\* ------------------------------------------------------ byte-string helpers
\* canonical form of a run sequence
RECURSIVE Norm(_)
Norm(buf) ==
    IF buf = <<>> THEN <<>>
    ELSE IF Head(buf).n = 0 THEN Norm(Tail(buf))
    ELSE LET rest == Norm(Tail(buf))
         IN  IF rest # <<>> /\ Head(rest).b = Head(buf).b
             THEN <<[b |-> Head(buf).b, n |-> Head(buf).n + Head(rest).n]>> \o Tail(rest)
             ELSE <<Head(buf)>> \o rest

\* the buffer holding the bytes of the plain sequence s
FromSeq(s) == Norm([i \in 1..Len(s) |-> [b |-> s[i], n |-> 1]])

\* the plain sequence of bytes of a (short) buffer
RECURSIVE ToSeq(_)
ToSeq(buf) ==
    IF buf = <<>> THEN <<>>
    ELSE IF Head(buf).n = 1 THEN <<Head(buf).b>> \o ToSeq(Tail(buf))
    ELSE <<Head(buf).b>> \o ToSeq(<<[b |-> Head(buf).b, n |-> Head(buf).n - 1]>> \o Tail(buf))

\* len(data)
RECURSIVE BLen(_)
BLen(buf) == IF buf = <<>> THEN 0 ELSE Head(buf).n + BLen(Tail(buf))

\* a + b on bytes
BCat(a, b) == Norm(a \o b)

\* data[k:] for k >= 0
RECURSIVE BDrop(_, _)
BDrop(buf, k) ==
    IF buf = <<>> \/ k <= 0 THEN buf
    ELSE IF Head(buf).n <= k THEN BDrop(Tail(buf), k - Head(buf).n)
    ELSE <<[b |-> Head(buf).b, n |-> Head(buf).n - k]>> \o Tail(buf)

\* data[:k] for k >= 0
RECURSIVE BTake(_, _)
BTake(buf, k) ==
    IF buf = <<>> \/ k <= 0 THEN <<>>
    ELSE IF Head(buf).n <= k THEN <<Head(buf)>> \o BTake(Tail(buf), k - Head(buf).n)
    ELSE <<[b |-> Head(buf).b, n |-> k]>>

\* data[lo:hi] for 0 <= lo, 0 <= hi (Python clamps both ends to len(data))
BSlice(buf, lo, hi) == IF hi <= lo THEN <<>> ELSE BTake(BDrop(buf, lo), hi - lo)

\* index of the first byte equal to c, or -1 when the buffer holds none
RECURSIVE BFind(_, _)
BFind(buf, c) ==
    IF buf = <<>> THEN -1
    ELSE IF Head(buf).b = c THEN 0
    ELSE LET r == BFind(Tail(buf), c)
         IN  IF r = -1 THEN -1 ELSE Head(buf).n + r

IsDigit(b) == b \in ZERO..(ZERO + 9)

\* int(s) accepts s: over the bytes modelled here (no sign, blank or
\* underscore) that is a non-empty string of ASCII digits
IntOk(s) == Len(s) > 0 /\ \A i \in 1..Len(s) : IsDigit(s[i])

\* int(s) for a string of ASCII digits
RECURSIVE IntVal(_)
IntVal(s) ==
    IF s = <<>> THEN 0
    ELSE 10 * IntVal(SubSeq(s, 1, Len(s) - 1)) + (s[Len(s)] - ZERO)

\* '%d' % n for n >= 0
RECURSIVE Digits(_)
Digits(n) ==
    IF n < 10 THEN <<ZERO + n>>
    ELSE Digits(n \div 10) \o <<ZERO + (n % 10)>>

\* s left-padded with '0' up to the minimum width w
RECURSIVE ZeroPad(_, _)
ZeroPad(s, w) == IF Len(s) >= w THEN s ELSE ZeroPad(<<ZERO>> \o s, w)

\* '%08d' % n : at least 8 characters, more when n needs more

\* ------------------------------------------------------------------- codec
Returned(v) == [status |-> "ok", value |-> v]
Raised(e) == [status |-> e, value |-> <<>>]
\* the scan loop of decode_ieee_block never ends
Diverges == [status |-> "diverges", value |-> <<>>]

\* build_ieee_block(data)
build_ieee_block(data) ==
    BCat(FromSeq(<<HASH, ZERO + 8>> \o ZeroPad(Digits(BLen(data)), 8)), data)

\* decode_ieee_block without the "ind += l" that steps over the length field
decode_ieee_block_NoFieldSkip(buf) ==
    IF BLen(buf) = 0 THEN Returned(<<>>)
    ELSE
    LET hashAt == BFind(buf, HASH)
    IN  IF hashAt = -1 THEN Diverges
        ELSE
        LET ind1 == hashAt + 1
            lstr == ToSeq(BSlice(buf, ind1, ind1 + 1))
        IN  IF ~IntOk(lstr) THEN Raised("ValueError")
            ELSE
            LET l == IntVal(lstr)
                ind2 == ind1 + 1
            IN  IF l > 0
                THEN LET nstr == ToSeq(BSlice(buf, ind2, ind2 + l))
                     IN  IF ~IntOk(nstr) THEN Raised("ValueError")
                         ELSE Returned(BSlice(buf, ind2, ind2 + IntVal(nstr)))
                ELSE Returned(BDrop(buf, ind2))

\* decode_ieee_block whose open-ended branch keeps the digit-count byte
decode_ieee_block_KeepsCountDigit(buf) ==
    IF BLen(buf) = 0 THEN Returned(<<>>)
    ELSE
    LET hashAt == BFind(buf, HASH)
    IN  IF hashAt = -1 THEN Diverges
        ELSE
        LET ind1 == hashAt + 1
            lstr == ToSeq(BSlice(buf, ind1, ind1 + 1))
        IN  IF ~IntOk(lstr) THEN Raised("ValueError")
            ELSE
            LET l == IntVal(lstr)
                ind2 == ind1 + 1
            IN  IF l > 0
                THEN LET nstr == ToSeq(BSlice(buf, ind2, ind2 + l))
                     IN  IF ~IntOk(nstr) THEN Raised("ValueError")
                         ELSE Returned(BSlice(buf, ind2 + l, ind2 + l + IntVal(nstr)))
                ELSE Returned(BDrop(buf, ind1))

\* decode_ieee_block that refuses a block shorter than its header announces
decode_ieee_block_Strict(buf) ==
    IF BLen(buf) = 0 THEN Returned(<<>>)
    ELSE
    LET hashAt == BFind(buf, HASH)
    IN  IF hashAt = -1 THEN Diverges
        ELSE
        LET ind1 == hashAt + 1
            lstr == ToSeq(BSlice(buf, ind1, ind1 + 1))
        IN  IF ~IntOk(lstr) THEN Raised("ValueError")
            ELSE
            LET l == IntVal(lstr)
                ind2 == ind1 + 1
            IN  IF l > 0
                THEN LET nstr == ToSeq(BSlice(buf, ind2, ind2 + l))
                     IN  IF ~IntOk(nstr) THEN Raised("ValueError")
                         ELSE IF BLen(buf) < ind2 + l + IntVal(nstr) THEN Raised("IOException")
                         ELSE Returned(BSlice(buf, ind2 + l, ind2 + l + IntVal(nstr)))
                ELSE Returned(BDrop(buf, ind2))

\* decode_ieee_block(data)
decode_ieee_block(data) ==
    IF BLen(data) = 0 THEN Returned(<<>>)
    ELSE
    LET hashAt == BFind(data, HASH)
    IN  IF hashAt = -1 THEN Diverges
        ELSE
        LET ind1 == hashAt + 1
            lstr == ToSeq(BSlice(data, ind1, ind1 + 1))
        IN  IF ~IntOk(lstr) THEN Raised("ValueError")
            ELSE
            LET l == IntVal(lstr)
                ind2 == ind1 + 1
            IN  IF l > 0
                THEN LET nstr == ToSeq(BSlice(data, ind2, ind2 + l))
                     IN  IF ~IntOk(nstr) THEN Raised("ValueError")
                         ELSE LET num == IntVal(nstr)
                                  ind3 == ind2 + l
                              IN  Returned(BSlice(data, ind3, ind3 + num))
                ELSE Returned(BDrop(data, ind2))

\* ------------------------------------------------------------------- state
VARIABLES
    data,                   \* codec: the byte string handed to the codec
    block,                  \* codec: result of build_ieee_block(data)
    decoded,                \* codec: outcome of the last decode_ieee_block call
    cpc,                    \* codec: which calls have been made on data
    globals,                \* backend modules the imports of ivi.py found
    interface,              \* self._interface
    initialized,            \* self._initialized
    driver_operation,       \* the self._driver_operation_* option fields
    prefer_pyvisa,          \* self._prefer_pyvisa
    io_resource_descriptor, \* self._driver_operation_io_resource_descriptor
    cache_valid,            \* self._cache_valid
    attributes,             \* the instance attributes a per-model driver stores values in
    lock,                   \* the session lock: who holds it and how many times
    last                    \* the last call made on the session and its outcome

codecVars == <<data, block, decoded, cpc>>
driverVars == <<attributes, lock>>
sessionVars == <<globals, interface, initialized, driver_operation, prefer_pyvisa,
                 io_resource_descriptor, cache_valid, driverVars>>
vars == <<data, block, decoded, cpc, globals, interface, initialized, driver_operation,
          prefer_pyvisa, io_resource_descriptor, cache_valid, attributes, lock, last>>

NotCalled == [status |-> "none", value |-> <<>>]

\* ------------------------------------------------------------ codec inputs
\* the first k bytes of "DATA#1DATA#1..."
Pattern(k) == [i \in 1..k |-> <<CH_D, CH_A, CH_T, CH_A, HASH, ZERO + 1>>[((i - 1) % 6) + 1]]

\* the buffers given to the codec:
\* every byte string of at most MaxLen bytes over '#', '0', '1', '2', 'A';
\* leading reply text without '#' (none, 'A', 'A1'), '#', digit count l, num
\* rendered on l digits, then k bytes that may be fewer (truncated block) or
\* more (trailing bytes) than num;
\* payloads of LongLen - 1 and LongLen bytes, and one followed by a '#'
Inputs ==
    {FromSeq(s) : s \in UNION {[1..n -> {HASH, ZERO, ZERO + 1, ZERO + 2, CH_A}] :
                                  n \in 0..MaxLen}}
    \cup
    {FromSeq(noise \o <<HASH, ZERO + l>> \o ZeroPad(Digits(num), l) \o Pattern(k)) :
        noise \in {<<>>, <<CH_A>>, <<CH_A, ZERO + 1>>}, l \in 1..9, num \in 0..MaxNum,
        k \in 0..(MaxNum + 2)}
    \cup
    {Norm(<<[b |-> c, n |-> len]>> \o tail) :
        c \in {CH_A, ZERO}, len \in {LongLen - 1, LongLen},
        tail \in {<<>>, <<[b |-> HASH, n |-> 1]>>}}

\* ------------------------------------------------------- session: values
\* Python values: None, bytes, str, int and list.  A str and the bytes of
\* its utf-8 encoding are both held as the sequence of their ASCII codes.
NoneV == [t |-> "None", v |-> <<>>]
BytesV(s) == [t |-> "bytes", v |-> s]
StrV(s) == [t |-> "str", v |-> s]
IntV(n) == [t |-> "int", v |-> <<n>>]
ListV(l) == [t |-> "list", v |-> l]
BoolV(b) == [t |-> "bool", v |-> <<b>>]

\* bool(val) on the option values used here
PyVals == {"True", "False", "1", "0"}
Bool(val) == val \in {"True", "1"}

\* ------------------------------------------------- session: the transports

\* self._interface = None
NoInterface == [cls |-> "None", methods |-> {}]

RequiredMethods == {"read_raw", "write_raw"}
OptionalMethods == {"ask_raw", "write", "read", "ask", "read_stb", "trigger",
                    "clear", "remote", "local"}

\* the instrument class each backend module constructs
InstrumentClass(backend) ==
    CASE backend = "vxi11" -> "vxi11.Instrument"
      [] backend = "usbtmc" -> "usbtmc.Instrument"
      [] backend = "linuxgpib" -> "linuxgpib.LinuxGpibInstrument"
      [] backend = "pyserial" -> "pyserial.SerialInstrument"
      [] backend = "pyvisa" -> "pyvisa.PyVisaInstrument"

\* the instrument object a backend constructs: backend.Instrument(resource);
\* the backends' instrument classes define every transport method
Construct(backend) ==
    [cls |-> InstrumentClass(backend), methods |-> RequiredMethods \cup OptionalMethods]

\* ---------------------------------------------- session: resource strings
\* the resource strings handed to initialize
ResourceStrings ==
    {"TCPIP0::10.0.0.1::gpib,5::INSTR", "usb0::0x1234::0x5678::instr",
     "GPIB0::10::INSTR", "ASRL::COM1,9600,8n1::INSTR", "VXI0::1::INSTR"}

\* m.group('type').upper() of the re.match at initialize, "" when m is None
ResourceType(resource) ==
    CASE resource = "TCPIP0::10.0.0.1::gpib,5::INSTR" -> "TCPIP"
      [] resource = "usb0::0x1234::0x5678::instr" -> "USB"
      [] resource = "GPIB0::10::INSTR" -> "GPIB"
      [] resource = "ASRL::COM1,9600,8n1::INSTR" -> "ASRL"
      [] OTHER -> ""

\* the native backend module of a resource type
NativeBackend(res_type) ==
    CASE res_type = "TCPIP" -> "vxi11"
      [] res_type = "USB" -> "usbtmc"
      [] res_type = "GPIB" -> "linuxgpib"
      [] res_type = "ASRL" -> "pyserial"

\* the if/elif chain without the self._prefer_pyvisa branch
SelectBackend_IgnoresPrefer(res_type, prefer, glob) ==
    IF NativeBackend(res_type) \in glob THEN NativeBackend(res_type)
    ELSE IF "pyvisa" \in glob THEN "pyvisa"
    ELSE ""

\* the backend module the if/elif chain of a resource type picks, "" for none
SelectBackend(res_type, prefer, glob) ==
    IF prefer /\ "pyvisa" \in glob THEN "pyvisa"
    ELSE IF NativeBackend(res_type) \in glob THEN NativeBackend(res_type)
    ELSE IF "pyvisa" \in glob THEN "pyvisa"
    ELSE ""

\* a resource argument; for an object, dict holds the names found in
\* resource.__class__.__dict__, the attributes its own class defines
NoResource == [kind |-> "None", s |-> "", obj |-> NoInterface, dict |-> {}]
StrResource(r) == [kind |-> "str", s |-> r, obj |-> NoInterface, dict |-> {}]

\* an object whose class defines its methods itself
ObjResource(o) == [kind |-> "object", s |-> "", obj |-> o, dict |-> o.methods]

\* an object of a class that inherits its methods and defines none itself
InheritingResource(o) == [kind |-> "object", s |-> "", obj |-> o, dict |-> {}]

ResourcesOf(strings, objects) ==
    {NoResource} \cup {StrResource(r) : r \in strings} \cup {ObjResource(o) : o \in objects}

\* ------------------------------------------------------ session: options
Option(k, val) == [key |-> k, val |-> val]

\* the keyword arguments of the initialize calls, in the order given
OptionLists ==
    {<<>>,
     <<Option("simulate", "True")>>,
     <<Option("simulate", "False")>>,
     <<Option("cache", "False")>>,
     <<Option("cache", "1")>>,
     <<Option("prefer_pyvisa", "True")>>,
     <<Option("range_check", "0"), Option("query_instr_status", "True"),
       Option("record_coercions", "True"), Option("interchange_check", "True"),
       Option("driver_setup", "model")>>,
     <<Option("bogus", "1")>>,
     <<Option("simulate", "True"), Option("bogus", "1")>>,
     <<Option("bogus", "1"), Option("simulate", "True")>>}

\* DriverOperation.__init__: the default option fields
DriverOperationDefaults ==
    [cache |-> TRUE, driver_setup |-> "", interchange_check |-> FALSE,
     query_instrument_status |-> FALSE, range_check |-> TRUE,
     record_coercions |-> FALSE, simulate |-> FALSE,
     interchange_warnings |-> <<>>, coercion_records |-> <<>>]

\* the option loop with a final else that ignores the key instead of raising
RECURSIVE decode_options_SkipsUnknown(_, _, _)
decode_options_SkipsUnknown(dop, prefer, keywargs) ==
    IF keywargs = <<>> THEN [dop |-> dop, prefer |-> prefer, status |-> "ok"]
    ELSE
    LET op == Head(keywargs).key
        val == Head(keywargs).val
        rest == Tail(keywargs)
    IN  CASE op = "range_check" ->
               decode_options_SkipsUnknown([dop EXCEPT !.range_check = Bool(val)], prefer, rest)
          [] op = "query_instr_status" ->
               decode_options_SkipsUnknown([dop EXCEPT !.query_instrument_status = Bool(val)],
                                           prefer, rest)
          [] op = "cache" ->
               decode_options_SkipsUnknown([dop EXCEPT !.cache = Bool(val)], prefer, rest)
          [] op = "simulate" ->
               decode_options_SkipsUnknown([dop EXCEPT !.simulate = Bool(val)], prefer, rest)
          [] op = "record_coercions" ->
               decode_options_SkipsUnknown([dop EXCEPT !.record_coercions = Bool(val)],
                                           prefer, rest)
          [] op = "interchange_check" ->
               decode_options_SkipsUnknown([dop EXCEPT !.interchange_check = Bool(val)],
                                           prefer, rest)
          [] op = "driver_setup" ->
               decode_options_SkipsUnknown([dop EXCEPT !.driver_setup = val], prefer, rest)
          [] op = "prefer_pyvisa" ->
               decode_options_SkipsUnknown(dop, Bool(val), rest)
          [] OTHER ->
               decode_options_SkipsUnknown(dop, prefer, rest)

\* the option loop of initialize: fields after the loop, and whether it raised
RECURSIVE decode_options(_, _, _)
decode_options(dop, prefer, keywargs) ==
    IF keywargs = <<>> THEN [dop |-> dop, prefer |-> prefer, status |-> "ok"]
    ELSE
    LET op == Head(keywargs).key
        val == Head(keywargs).val
        rest == Tail(keywargs)
    IN  CASE op = "range_check" ->
               decode_options([dop EXCEPT !.range_check = Bool(val)], prefer, rest)
          [] op = "query_instr_status" ->
               decode_options([dop EXCEPT !.query_instrument_status = Bool(val)], prefer, rest)
          [] op = "cache" ->
               decode_options([dop EXCEPT !.cache = Bool(val)], prefer, rest)
          [] op = "simulate" ->
               decode_options([dop EXCEPT !.simulate = Bool(val)], prefer, rest)
          [] op = "record_coercions" ->
               decode_options([dop EXCEPT !.record_coercions = Bool(val)], prefer, rest)
          [] op = "interchange_check" ->
               decode_options([dop EXCEPT !.interchange_check = Bool(val)], prefer, rest)
          [] op = "driver_setup" ->
               decode_options([dop EXCEPT !.driver_setup = val], prefer, rest)
          [] op = "prefer_pyvisa" ->
               decode_options(dop, Bool(val), rest)
          [] OTHER ->
               [dop |-> dop, prefer |-> prefer, status |-> "UnknownOptionException"]

\* --------------------------------------------------- session: the cache
\* the dictionary key of _get_cache_valid / _set_cache_valid: the tag, with
\* the index appended when there is one (tag + '_%d' % index, for the
\* indexes 0 to 3)
CacheKey(tag, index) ==
    IF index >= 0 THEN tag \o <<"_0", "_1", "_2", "_3">>[index + 1] ELSE tag

EmptyDict == [key \in {} |-> FALSE]

\* d[key] = value
DictSet(d, key, value) == [x \in (DOMAIN d) \cup {key} |-> IF x = key THEN value ELSE d[x]]

\* Driver._driver_operation_invalidate_all_attributes
driver_operation_invalidate_all_attributes == EmptyDict

\* invalidate_all_attributes of the concrete driver classes
invalidate_all_attributes == driver_operation_invalidate_all_attributes

\* ------------------------------------------------- session: call outcomes
Outcome(op, args, status, value, calls) ==
    [op |-> op, args |-> args, status |-> status, value |-> value, calls |-> calls,
     msg |-> <<>>]

\* a call that raised an exception constructed with a message: the format
\* string and its argument
Failure(op, status, msg, calls) ==
    [op |-> op, args |-> <<>>, status |-> status, value |-> NoneV, calls |-> calls,
     msg |-> msg]

\* the session lock when nobody holds it
Unlocked == [owner |-> "", count |-> 0]

\* Driver.__init__ without resource and without options
InitSession ==
    /\ interface = NoInterface
    /\ initialized = FALSE
    /\ driver_operation = DriverOperationDefaults
    /\ io_resource_descriptor = ""
    /\ cache_valid = EmptyDict
    /\ attributes = EmptyDict
    /\ lock = Unlocked
    /\ last = Outcome("__init__", <<>>, "ok", NoneV, <<>>)

\* ------------------------------------------------------ session lifecycle
\* whether the backend's instrument constructor returns or raises
CtorOutcomes == {"ok", "TransportError"}

\* outcomes of the resource branch: raise IOException(msg)
Refused(msg) == [status |-> "IOException", new |-> NoInterface, msg |-> msg, calls |-> <<>>]

\* self._interface = resource
Bound(obj) == [status |-> "ok", new |-> obj, msg |-> <<>>, calls |-> <<>>]

\* self._interface = backend.Instrument(resource): the constructor returns
\* the instrument or raises
Constructed(backend, resource, ctor) ==
    [status |-> ctor,
     new |-> IF ctor = "ok" THEN Construct(backend) ELSE NoInterface,
     msg |-> <<>>,
     calls |-> <<[m |-> InstrumentClass(backend), args |-> <<resource>>,
                  raised |-> IF ctor = "ok" THEN "" ELSE ctor]>>]

\* process_resource without the "resource is None" check: None goes on to be
\* bound like a transport object
process_resource_NoNoneCheck(resource, prefer) ==
    IF resource.kind = "None" THEN {Bound(resource.obj)}
    ELSE IF resource.kind = "str" THEN
        LET res_type == ResourceType(resource.s)
            backend == IF res_type = ""
                       THEN (IF "pyvisa" \in globals THEN "pyvisa" ELSE "")
                       ELSE SelectBackend(res_type, prefer, globals)
        IN  IF backend = ""
            THEN {Refused(IF res_type = "" THEN <<"Invalid resource string">>
                          ELSE <<"Cannot use resource type %s", res_type>>)}
            ELSE {Constructed(backend, resource.s, ctor) : ctor \in CtorOutcomes}
    ELSE IF "vxi11" \in globals /\ resource.obj.cls = "vxi11.Instrument"
        THEN {Bound(resource.obj)}
    ELSE IF "usbtmc" \in globals /\ resource.obj.cls = "usbtmc.Instrument"
        THEN {Bound(resource.obj)}
    ELSE IF RequiredMethods \subseteq resource.dict
        THEN {Bound(resource.obj)}
    ELSE {Refused(<<"Invalid resource">>)}

\* process_resource without the PyVISA fallback for a string the grammar does
\* not match
process_resource_NoFallback(resource, prefer) ==
    IF resource.kind = "None" THEN {Refused(<<"No resource specified!">>)}
    ELSE IF resource.kind = "str" THEN
        LET res_type == ResourceType(resource.s)
            backend == IF res_type = ""
                       THEN ""
                       ELSE SelectBackend(res_type, prefer, globals)
        IN  IF backend = ""
            THEN {Refused(IF res_type = "" THEN <<"Invalid resource string">>
                          ELSE <<"Cannot use resource type %s", res_type>>)}
            ELSE {Constructed(backend, resource.s, ctor) : ctor \in CtorOutcomes}
    ELSE IF "vxi11" \in globals /\ resource.obj.cls = "vxi11.Instrument"
        THEN {Bound(resource.obj)}
    ELSE IF "usbtmc" \in globals /\ resource.obj.cls = "usbtmc.Instrument"
        THEN {Bound(resource.obj)}
    ELSE IF RequiredMethods \subseteq resource.dict
        THEN {Bound(resource.obj)}
    ELSE {Refused(<<"Invalid resource">>)}

\* the resource branch of initialize: the transport it binds or the error it
\* raises, for each outcome of the backend's constructor
process_resource(resource, prefer) ==
    IF resource.kind = "None" THEN {Refused(<<"No resource specified!">>)}
    ELSE IF resource.kind = "str" THEN
        LET res_type == ResourceType(resource.s)
            backend == IF res_type = ""
                       THEN (IF "pyvisa" \in globals THEN "pyvisa" ELSE "")
                       ELSE SelectBackend(res_type, prefer, globals)
        IN  IF backend = ""
            THEN {Refused(IF res_type = "" THEN <<"Invalid resource string">>
                          ELSE <<"Cannot use resource type %s", res_type>>)}
            ELSE {Constructed(backend, resource.s, ctor) : ctor \in CtorOutcomes}
    ELSE IF "vxi11" \in globals /\ resource.obj.cls = "vxi11.Instrument"
        THEN {Bound(resource.obj)}
    ELSE IF "usbtmc" \in globals /\ resource.obj.cls = "usbtmc.Instrument"
        THEN {Bound(resource.obj)}
    ELSE IF RequiredMethods \subseteq resource.dict
        THEN {Bound(resource.obj)}
    ELSE {Refused(<<"Invalid resource">>)}

\* initialize that sets self._initialized before it processes the resource,
\* so that the flag is set on the failure paths of the resource branch too
Initialize_FlagFirst(resource, keywargs) ==
    LET dec == decode_options(driver_operation, prefer_pyvisa, keywargs)
    IN  /\ driver_operation' = dec.dop
        /\ prefer_pyvisa' = dec.prefer
        /\ IF dec.status # "ok"
           THEN /\ last' = Failure("initialize", dec.status, <<"Invalid option">>, <<>>)
                /\ UNCHANGED <<interface, initialized, io_resource_descriptor, cache_valid>>
           ELSE IF dec.dop.simulate
           THEN /\ cache_valid' = invalidate_all_attributes
                /\ initialized' = TRUE
                /\ last' = Outcome("initialize", <<>>, "ok", NoneV, <<>>)
                /\ UNCHANGED <<interface, io_resource_descriptor>>
           ELSE \E res \in process_resource(resource, dec.prefer) :
                    IF res.status # "ok"
                    THEN /\ last' = Failure("initialize", res.status, res.msg, res.calls)
                         /\ initialized' = TRUE
                         /\ UNCHANGED <<interface, io_resource_descriptor, cache_valid>>
                    ELSE /\ interface' = res.new
                         /\ io_resource_descriptor' =
                                IF resource.kind = "str" THEN resource.s
                                ELSE io_resource_descriptor
                         /\ cache_valid' = invalidate_all_attributes
                         /\ initialized' = TRUE
                         /\ last' = Outcome("initialize", <<>>, "ok", NoneV, res.calls)
        /\ UNCHANGED <<globals>>

\* initialize without the call of invalidate_all_attributes
Initialize_NoInvalidate(resource, keywargs) ==
    LET dec == decode_options(driver_operation, prefer_pyvisa, keywargs)
    IN  /\ driver_operation' = dec.dop
        /\ prefer_pyvisa' = dec.prefer
        /\ IF dec.status # "ok"
           THEN /\ last' = Failure("initialize", dec.status, <<"Invalid option">>, <<>>)
                /\ UNCHANGED <<interface, initialized, io_resource_descriptor, cache_valid>>
           ELSE IF dec.dop.simulate
           THEN /\ initialized' = TRUE
                /\ last' = Outcome("initialize", <<>>, "ok", NoneV, <<>>)
                /\ UNCHANGED <<interface, io_resource_descriptor, cache_valid>>
           ELSE \E res \in process_resource(resource, dec.prefer) :
                    IF res.status # "ok"
                    THEN /\ last' = Failure("initialize", res.status, res.msg, res.calls)
                         /\ UNCHANGED <<interface, initialized, io_resource_descriptor,
                                        cache_valid>>
                    ELSE /\ interface' = res.new
                         /\ io_resource_descriptor' =
                                IF resource.kind = "str" THEN resource.s
                                ELSE io_resource_descriptor
                         /\ initialized' = TRUE
                         /\ last' = Outcome("initialize", <<>>, "ok", NoneV, res.calls)
                         /\ UNCHANGED cache_valid
        /\ UNCHANGED <<globals>>

\* initialize that invalidates the cache before it processes the resource
Initialize_InvalidatesFirst(resource, keywargs) ==
    LET dec == decode_options(driver_operation, prefer_pyvisa, keywargs)
    IN  /\ driver_operation' = dec.dop
        /\ prefer_pyvisa' = dec.prefer
        /\ IF dec.status # "ok"
           THEN /\ last' = Failure("initialize", dec.status, <<"Invalid option">>, <<>>)
                /\ UNCHANGED <<interface, initialized, io_resource_descriptor, cache_valid>>
           ELSE IF dec.dop.simulate
           THEN /\ cache_valid' = invalidate_all_attributes
                /\ initialized' = TRUE
                /\ last' = Outcome("initialize", <<>>, "ok", NoneV, <<>>)
                /\ UNCHANGED <<interface, io_resource_descriptor>>
           ELSE \E res \in process_resource(resource, dec.prefer) :
                    IF res.status # "ok"
                    THEN /\ last' = Failure("initialize", res.status, res.msg, res.calls)
                         /\ cache_valid' = invalidate_all_attributes
                         /\ UNCHANGED <<interface, initialized, io_resource_descriptor>>
                    ELSE /\ interface' = res.new
                         /\ io_resource_descriptor' =
                                IF resource.kind = "str" THEN resource.s
                                ELSE io_resource_descriptor
                         /\ cache_valid' = invalidate_all_attributes
                         /\ initialized' = TRUE
                         /\ last' = Outcome("initialize", <<>>, "ok", NoneV, res.calls)
        /\ UNCHANGED <<globals>>

\* Driver.initialize(resource, **keywargs)
Initialize(resource, keywargs) ==
    LET dec == decode_options(driver_operation, prefer_pyvisa, keywargs)
    IN  /\ driver_operation' = dec.dop
        /\ prefer_pyvisa' = dec.prefer
        /\ IF dec.status # "ok"
           THEN /\ last' = Failure("initialize", dec.status, <<"Invalid option">>, <<>>)
                /\ UNCHANGED <<interface, initialized, io_resource_descriptor, cache_valid>>
           ELSE IF dec.dop.simulate
           THEN /\ cache_valid' = invalidate_all_attributes
                /\ initialized' = TRUE
                /\ last' = Outcome("initialize", <<>>, "ok", NoneV, <<>>)
                /\ UNCHANGED <<interface, io_resource_descriptor>>
           ELSE \E res \in process_resource(resource, dec.prefer) :
                    IF res.status # "ok"
                    THEN /\ last' = Failure("initialize", res.status, res.msg, res.calls)
                         /\ UNCHANGED <<interface, initialized, io_resource_descriptor,
                                        cache_valid>>
                    ELSE /\ interface' = res.new
                         /\ io_resource_descriptor' =
                                IF resource.kind = "str" THEN resource.s
                                ELSE io_resource_descriptor
                         /\ cache_valid' = invalidate_all_attributes
                         /\ initialized' = TRUE
                         /\ last' = Outcome("initialize", <<>>, "ok", NoneV, res.calls)
        /\ UNCHANGED <<globals>>

\* close that releases the transport and leaves self._initialized as it is
Close_KeepsInitialized(close_ok) ==
    /\ interface' = NoInterface
    /\ last' = Outcome("close", <<>>, "ok", NoneV,
                       IF interface # NoInterface
                       THEN <<[m |-> "close", args |-> <<>>,
                               raised |-> IF close_ok THEN "" ELSE "TransportError"]>>
                       ELSE <<>>)
    /\ UNCHANGED <<globals, initialized, driver_operation, prefer_pyvisa,
                   io_resource_descriptor, cache_valid>>

\* close that lets an error of the transport's own close reach the caller
Close_Propagates(close_ok) ==
    IF interface # NoInterface /\ ~close_ok
    THEN /\ last' = Outcome("close", <<>>, "TransportError", NoneV,
                            <<[m |-> "close", args |-> <<>>, raised |-> "TransportError"]>>)
         /\ UNCHANGED <<globals, interface, initialized, driver_operation, prefer_pyvisa,
                        io_resource_descriptor, cache_valid>>
    ELSE /\ interface' = NoInterface
         /\ initialized' = FALSE
         /\ last' = Outcome("close", <<>>, "ok", NoneV,
                            IF interface # NoInterface
                            THEN <<[m |-> "close", args |-> <<>>, raised |-> ""]>>
                            ELSE <<>>)
         /\ UNCHANGED <<globals, driver_operation, prefer_pyvisa, io_resource_descriptor,
                        cache_valid>>

\* Driver.close(); close_ok: whether the transport's own close returns
Close(close_ok) ==
    /\ interface' = NoInterface
    /\ initialized' = FALSE
    /\ last' = Outcome("close", <<>>, "ok", NoneV,
                       IF interface # NoInterface
                       THEN <<[m |-> "close", args |-> <<>>,
                               raised |-> IF close_ok THEN "" ELSE "TransportError"]>>
                       ELSE <<>>)
    /\ UNCHANGED <<globals, driver_operation, prefer_pyvisa, io_resource_descriptor,
                   cache_valid>>

\* ------------------------------------- coercion records and warnings
\* a list never holds more than MaxRecords entries
MaxRecords == 2

\* an operation of DriverOperation that touches only the option fields
OperationCall(op, args, value, dop) ==
    /\ driver_operation' = dop
    /\ last' = Outcome(op, args, "ok", value, <<>>)
    /\ UNCHANGED <<globals, interface, initialized, prefer_pyvisa, io_resource_descriptor,
                   cache_valid, codecVars, driverVars>>

\* the driver notes a coercion (an interchangeability warning) at the end
\* of the list, when the option that asks for it is set
record_coercion(r) ==
    /\ driver_operation.record_coercions
    /\ Len(driver_operation.coercion_records) < MaxRecords
    /\ OperationCall("record_coercion", <<r>>, NoneV,
                     [driver_operation EXCEPT !.coercion_records = Append(@, r)])

record_interchange_warning(r) ==
    /\ driver_operation.interchange_check
    /\ Len(driver_operation.interchange_warnings) < MaxRecords
    /\ OperationCall("record_interchange_warning", <<r>>, NoneV,
                     [driver_operation EXCEPT !.interchange_warnings = Append(@, r)])

\* list.pop(): the last element, and the list without it
pop(list) == [value |-> list[Len(list)], rest |-> SubSeq(list, 1, Len(list) - 1)]

\* DriverOperation.next_coercion_record
next_coercion_record ==
    LET list == driver_operation.coercion_records
    IN  IF Len(list) > 0
        THEN OperationCall("next_coercion_record", <<>>, StrV(pop(list).value),
                           [driver_operation EXCEPT !.coercion_records = pop(list).rest])
        ELSE OperationCall("next_coercion_record", <<>>, StrV(<<>>), driver_operation)

\* DriverOperation.next_interchange_warning
next_interchange_warning ==
    LET list == driver_operation.interchange_warnings
    IN  IF Len(list) > 0
        THEN OperationCall("next_interchange_warning", <<>>, StrV(pop(list).value),
                           [driver_operation EXCEPT !.interchange_warnings = pop(list).rest])
        ELSE OperationCall("next_interchange_warning", <<>>, StrV(<<>>), driver_operation)

\* DriverOperation.clear_interchange_warnings
clear_interchange_warnings ==
    OperationCall("clear_interchange_warnings", <<>>, NoneV,
                  [driver_operation EXCEPT !.interchange_warnings = <<>>])

\* ------------------------------------------------------ the session lock
\* a caller takes the lock at most MaxDepth times over
MaxDepth == 2

\* a lock that is held or not, without a count of the holds
lock_object_NotCounted(c) ==
    /\ lock.owner \in {"", c}
    /\ lock.count < MaxDepth
    /\ lock' = [owner |-> c, count |-> 1]
    /\ last' = Outcome("lock_object", <<c>>, "ok", NoneV, <<>>)
    /\ UNCHANGED <<globals, interface, initialized, driver_operation, prefer_pyvisa,
                   io_resource_descriptor, cache_valid, attributes, codecVars>>

\* DriverUtility.lock_object by caller c: returns when nobody else holds the
\* lock, which c then holds once more; until then the caller waits
lock_object(c) ==
    /\ lock.owner \in {"", c}
    /\ lock.count < MaxDepth
    /\ lock' = [owner |-> c, count |-> lock.count + 1]
    /\ last' = Outcome("lock_object", <<c>>, "ok", NoneV, <<>>)
    /\ UNCHANGED <<globals, interface, initialized, driver_operation, prefer_pyvisa,
                   io_resource_descriptor, cache_valid, attributes, codecVars>>

\* DriverUtility.unlock_object by caller c, who holds the lock: one hold less
unlock_object(c) ==
    /\ lock.owner = c
    /\ lock' = IF lock.count = 1 THEN Unlocked ELSE [lock EXCEPT !.count = @ - 1]
    /\ last' = Outcome("unlock_object", <<c>>, "ok", NoneV, <<>>)
    /\ UNCHANGED <<globals, interface, initialized, driver_operation, prefer_pyvisa,
                   io_resource_descriptor, cache_valid, attributes, codecVars>>

\* the simulate setter without the test that refuses to turn simulation off
SetSimulate_NoRefusal(value) ==
    /\ driver_operation' = [driver_operation EXCEPT !.simulate = Bool(value)]
    /\ last' = Outcome("simulate.setter", <<value>>, "ok", NoneV, <<>>)
    /\ UNCHANGED <<globals, interface, initialized, prefer_pyvisa, io_resource_descriptor,
                   cache_valid>>

\* DriverOperation.simulate setter
SetSimulate(value) ==
    /\ IF driver_operation.simulate /\ ~Bool(value)
       THEN /\ last' = Outcome("simulate.setter", <<value>>, "SimulationStateException", NoneV, <<>>)
            /\ UNCHANGED driver_operation
       ELSE /\ driver_operation' = [driver_operation EXCEPT !.simulate = Bool(value)]
            /\ last' = Outcome("simulate.setter", <<value>>, "ok", NoneV, <<>>)
    /\ UNCHANGED <<globals, interface, initialized, prefer_pyvisa, io_resource_descriptor,
                   cache_valid>>

\* DriverOperation.operation_cache setter
SetOperationCache(value) ==
    /\ driver_operation' = [driver_operation EXCEPT !.cache = Bool(value)]
    /\ last' = Outcome("operation_cache.setter", <<value>>, "ok", NoneV, <<>>)
    /\ UNCHANGED <<globals, interface, initialized, prefer_pyvisa, io_resource_descriptor,
                   cache_valid>>

\* _get_cache_valid without the test of the cache option
GetCacheValid_IgnoresDisable(tag, index, skip_disable) ==
    LET key == CacheKey(tag, index)
        args == <<tag, index, skip_disable>>
    IN  /\ IF key \in DOMAIN cache_valid
           THEN /\ last' = Outcome("_get_cache_valid", args, "ok", BoolV(cache_valid[key]), <<>>)
                /\ UNCHANGED cache_valid
           ELSE /\ cache_valid' = DictSet(cache_valid, key, FALSE)
                /\ last' = Outcome("_get_cache_valid", args, "ok", BoolV(FALSE), <<>>)
        /\ UNCHANGED <<globals, interface, initialized, driver_operation, prefer_pyvisa,
                       io_resource_descriptor>>

\* Driver._get_cache_valid(tag, index, skip_disable): what it returns and
\* the dictionary it leaves
get_cache_valid(tag, index, skip_disable) ==
    LET key == CacheKey(tag, index)
    IN  IF ~skip_disable /\ ~driver_operation.cache
        THEN [value |-> FALSE, cache |-> cache_valid]
        ELSE IF key \in DOMAIN cache_valid
        THEN [value |-> cache_valid[key], cache |-> cache_valid]
        ELSE [value |-> FALSE, cache |-> DictSet(cache_valid, key, FALSE)]

\* a call of _get_cache_valid(tag, index, skip_disable) on the session
GetCacheValid(tag, index, skip_disable) ==
    LET r == get_cache_valid(tag, index, skip_disable)
    IN  /\ cache_valid' = r.cache
        /\ last' = Outcome("_get_cache_valid", <<tag, index, skip_disable>>, "ok",
                           BoolV(r.value), <<>>)
        /\ UNCHANGED <<globals, interface, initialized, driver_operation, prefer_pyvisa,
                       io_resource_descriptor>>

\* Driver._set_cache_valid(valid, tag, index)
SetCacheValid(valid, tag, index) ==
    /\ cache_valid' = DictSet(cache_valid, CacheKey(tag, index), valid)
    /\ last' = Outcome("_set_cache_valid", <<valid, tag, index>>, "ok", NoneV, <<>>)
    /\ UNCHANGED <<globals, interface, initialized, driver_operation, prefer_pyvisa,
                   io_resource_descriptor>>

\* invalidate_all_attributes()
InvalidateAll ==
    /\ cache_valid' = invalidate_all_attributes
    /\ last' = Outcome("invalidate_all_attributes", <<>>, "ok", NoneV, <<>>)
    /\ UNCHANGED <<globals, interface, initialized, driver_operation, prefer_pyvisa,
                   io_resource_descriptor>>

\* ------------------------------------------------------------ session I/O
CR == 13
LF == 10

\* which transport call of an operation raises (0: none), what it raises,
\* and what the transport answers to a read
TransportBehaviours(maxFail, kinds, replies) ==
    {[failAt |-> 0, failKind |-> "", rx |-> r] : r \in replies}
    \cup {[failAt |-> k, failKind |-> e, rx |-> r] :
             k \in 1..maxFail, e \in kinds, r \in replies}

Ret(value, calls) == [status |-> "ok", value |-> value, calls |-> calls]
Raise(e, calls) == [status |-> e, value |-> NoneV, calls |-> calls]

\* self._interface.m(args): AttributeError when the object has no method m
transport_call(env, calls, m, args, ret) ==
    IF m \notin interface.methods THEN Raise("AttributeError", calls)
    ELSE IF Len(calls) + 1 = env.failAt
         THEN Raise(env.failKind,
                    Append(calls, [m |-> m, args |-> args, raised |-> env.failKind]))
         ELSE Ret(ret, Append(calls, [m |-> m, args |-> args, raised |-> ""]))

\* not self._initialized or self._interface is None
not_initialized == ~initialized \/ interface = NoInterface

\* str(data).encode('utf-8') and bytes.decode('utf-8') over ASCII
encode(text) == BytesV(text.v)
decode(raw) == StrV(raw.v)

\* s.rstrip('\r\n')
RECURSIVE rstrip(_)
rstrip(s) ==
    IF s # <<>> /\ s[Len(s)] \in {CR, LF} THEN rstrip(SubSeq(s, 1, Len(s) - 1)) ELSE s

\* the blanks int() skips at both ends of a str
RECURSIVE lstrip_ws(_)
lstrip_ws(s) == IF s # <<>> /\ Head(s) \in {32, 9, CR, LF} THEN lstrip_ws(Tail(s)) ELSE s
RECURSIVE rstrip_ws(_)
rstrip_ws(s) ==
    IF s # <<>> /\ s[Len(s)] \in {32, 9, CR, LF} THEN rstrip_ws(SubSeq(s, 1, Len(s) - 1)) ELSE s

\* _write_raw without the NotInitializedException guard
write_raw_NoGuard(env, calls, d) ==
    IF driver_operation.simulate THEN Ret(NoneV, calls)
    ELSE transport_call(env, calls, "write_raw", <<d>>, NoneV)

\* Driver._write_raw(data)
write_raw(env, calls, d) ==
    IF driver_operation.simulate THEN Ret(NoneV, calls)
    ELSE IF not_initialized THEN Raise("NotInitializedException", calls)
    ELSE transport_call(env, calls, "write_raw", <<d>>, NoneV)

\* Driver._read_raw(num)
read_raw(env, calls, num) ==
    IF driver_operation.simulate THEN Ret(BytesV(<<>>), calls)
    ELSE IF not_initialized THEN Raise("NotInitializedException", calls)
    ELSE transport_call(env, calls, "read_raw", <<IntV(num)>>, BytesV(env.rx))

\* _ask_raw whose emulation reads whether or not the write succeeded
ask_raw_ReadsAfterFailedWrite(env, calls, d, num) ==
    IF driver_operation.simulate THEN Ret(BytesV(<<>>), calls)
    ELSE IF not_initialized THEN Raise("NotInitializedException", calls)
    ELSE LET r == transport_call(env, calls, "ask_raw", <<d, IntV(num)>>, BytesV(env.rx))
         IN  IF r.status = "AttributeError"
             THEN LET w == write_raw(env, r.calls, d)
                  IN  read_raw(env, w.calls, num)
             ELSE r

\* Driver._ask_raw(data, num)
ask_raw(env, calls, d, num) ==
    IF driver_operation.simulate THEN Ret(BytesV(<<>>), calls)
    ELSE IF not_initialized THEN Raise("NotInitializedException", calls)
    ELSE LET r == transport_call(env, calls, "ask_raw", <<d, IntV(num)>>, BytesV(env.rx))
         IN  IF r.status = "AttributeError"
             THEN LET w == write_raw(env, r.calls, d)
                  IN  IF w.status # "ok" THEN w ELSE read_raw(env, w.calls, num)
             ELSE r

\* Driver._write(data): data is a str or a list of str
RECURSIVE write(_, _, _)
RECURSIVE write_each(_, _, _)
write(env, calls, d) ==
    IF driver_operation.simulate THEN Ret(NoneV, calls)
    ELSE IF not_initialized THEN Raise("NotInitializedException", calls)
    ELSE LET r == transport_call(env, calls, "write", <<d>>, NoneV)
         IN  IF r.status = "AttributeError"
             THEN IF d.t = "list" THEN write_each(env, r.calls, d.v)
                  ELSE write_raw(env, r.calls, encode(d))
             ELSE r

\* the loop over the commands going on after a command that failed
RECURSIVE write_each_GoesOn(_, _, _)
write_each_GoesOn(env, calls, items) ==
    IF items = <<>> THEN Ret(NoneV, calls)
    ELSE LET r == write(env, calls, Head(items))
         IN  write_each_GoesOn(env, r.calls, Tail(items))

\* for data_i in data: self._write(data_i, encoding)
write_each(env, calls, items) ==
    IF items = <<>> THEN Ret(NoneV, calls)
    ELSE LET r == write(env, calls, Head(items))
         IN  IF r.status # "ok" THEN r ELSE write_each(env, r.calls, Tail(items))

\* Driver._read(num)
read(env, calls, num) ==
    IF driver_operation.simulate THEN Ret(StrV(<<>>), calls)
    ELSE IF not_initialized THEN Raise("NotInitializedException", calls)
    ELSE LET r == transport_call(env, calls, "read", <<IntV(num)>>, StrV(env.rx))
         IN  IF r.status = "AttributeError"
             THEN LET raw == read_raw(env, r.calls, num)
                  IN  IF raw.status # "ok" THEN raw
                      ELSE Ret(StrV(rstrip(decode(raw.value).v)), raw.calls)
             ELSE r

\* Driver._ask(data, num): data is a str or a list of str
RECURSIVE ask(_, _, _, _)
RECURSIVE ask_each(_, _, _, _, _)
ask(env, calls, d, num) ==
    IF driver_operation.simulate THEN Ret(StrV(<<>>), calls)
    ELSE IF not_initialized THEN Raise("NotInitializedException", calls)
    ELSE LET r == transport_call(env, calls, "ask", <<d, IntV(num)>>, StrV(env.rx))
         IN  IF r.status = "AttributeError"
             THEN IF d.t = "list" THEN ask_each(env, r.calls, d.v, num, <<>>)
                  ELSE LET w == write(env, r.calls, d)
                       IN  IF w.status # "ok" THEN w ELSE read(env, w.calls, num)
             ELSE r

\* for data_i in data: val.append(self._ask(data_i, num, encoding))
ask_each(env, calls, items, num, val) ==
    IF items = <<>> THEN Ret(ListV(val), calls)
    ELSE LET r == ask(env, calls, Head(items), num)
         IN  IF r.status # "ok" THEN r
             ELSE ask_each(env, r.calls, Tail(items), num, Append(val, r.value))

\* int(s) on the str an ask returned
int_of(reply, calls) ==
    LET s == rstrip_ws(lstrip_ws(reply.v))
    IN  IF IntOk(s) THEN Ret(IntV(IntVal(s)), calls) ELSE Raise("ValueError", calls)

\* the status byte a transport's own read_stb reports
NativeStatusByte == 64

\* Driver._read_stb(); the emulation asks "*STB?"
read_stb(env, calls) ==
    IF driver_operation.simulate THEN Ret(IntV(0), calls)
    ELSE IF not_initialized THEN Raise("NotInitializedException", calls)
    ELSE LET r == transport_call(env, calls, "read_stb", <<>>, IntV(NativeStatusByte))
         IN  IF r.status \in {"AttributeError", "NotImplementedError"}
             THEN LET a == ask(env, r.calls, StrV(<<42, 83, 84, 66, 63>>), -1)
                  IN  IF a.status # "ok" THEN a ELSE int_of(a.value, a.calls)
             ELSE r

\* Driver._trigger(): the simulate branch prints and falls through; the
\* emulation writes "*TRG"
trigger(env, calls) ==
    IF not_initialized THEN Raise("NotInitializedException", calls)
    ELSE LET r == transport_call(env, calls, "trigger", <<>>, NoneV)
         IN  IF r.status \in {"AttributeError", "NotImplementedError"}
             THEN write(env, r.calls, StrV(<<42, 84, 82, 71>>))
             ELSE r

\* Driver._clear(): the simulate branch prints and falls through; the
\* emulation writes "*CLS"
clear(env, calls) ==
    IF not_initialized THEN Raise("NotInitializedException", calls)
    ELSE LET r == transport_call(env, calls, "clear", <<>>, NoneV)
         IN  IF r.status \in {"AttributeError", "NotImplementedError"}
             THEN write(env, r.calls, StrV(<<42, 67, 76, 83>>))
             ELSE r

\* Driver._remote(): the simulate branch prints and falls through
remote(env, calls) ==
    IF not_initialized THEN Raise("NotInitializedException", calls)
    ELSE transport_call(env, calls, "remote", <<>>, NoneV)

\* Driver._local(): the simulate branch prints and falls through
local(env, calls) ==
    IF not_initialized THEN Raise("NotInitializedException", calls)
    ELSE transport_call(env, calls, "local", <<>>, NoneV)

\* the transport serving a read of num bytes from the bytes it still holds
\* (all of them when num < 0), and the bytes left after it
Serve(stream, num) ==
    IF num < 0 \/ num >= Len(stream) THEN stream ELSE SubSeq(stream, 1, num)
Unserved(stream, num) ==
    IF num < 0 \/ num >= Len(stream) THEN <<>> ELSE SubSeq(stream, num + 1, Len(stream))

\* self._read_raw(num) on a transport that still holds the bytes of stream
stream_read(env, calls, stream, num) ==
    read_raw([env EXCEPT !.rx = Serve(stream, num)], calls, num)

\* the loop "while ch != b'#'" of _read_ieee_block never ends

\* _read_ieee_block whose payload read is unbounded instead of num bytes
read_ieee_block_body_Unbounded(env, calls, stream) ==
    LET d == stream_read(env, calls, stream, 1)
    IN  IF d.status # "ok" THEN d
        ELSE IF ~IntOk(d.value.v) THEN Raise("ValueError", d.calls)
        ELSE LET l == IntVal(d.value.v)
                 s1 == Unserved(stream, 1)
             IN  IF l > 0
                 THEN LET n == stream_read(env, d.calls, s1, l)
                      IN  IF n.status # "ok" THEN n
                          ELSE IF ~IntOk(n.value.v) THEN Raise("ValueError", n.calls)
                          ELSE stream_read(env, n.calls, Unserved(s1, l), -1)
                 ELSE stream_read(env, d.calls, s1, -1)

\* _read_ieee_block from "l = int(self._read_raw(1))" on
read_ieee_block_body(env, calls, stream) ==
    LET d == stream_read(env, calls, stream, 1)
    IN  IF d.status # "ok" THEN d
        ELSE IF ~IntOk(d.value.v) THEN Raise("ValueError", d.calls)
        ELSE LET l == IntVal(d.value.v)
                 s1 == Unserved(stream, 1)
             IN  IF l > 0
                 THEN LET n == stream_read(env, d.calls, s1, l)
                      IN  IF n.status # "ok" THEN n
                          ELSE IF ~IntOk(n.value.v) THEN Raise("ValueError", n.calls)
                          ELSE stream_read(env, n.calls, Unserved(s1, l), IntVal(n.value.v))
                 ELSE stream_read(env, d.calls, s1, -1)

\* _read_ieee_block: "while ch != b'#': ch = self._read_raw(1)"; once the
\* transport holds no more bytes every read returns b'' and the loop goes on
\* until a read raises
RECURSIVE read_ieee_block_scan(_, _, _, _)
read_ieee_block_scan(env, calls, stream, ch) ==
    IF ch = <<HASH>> THEN read_ieee_block_body(env, calls, stream)
    ELSE IF stream = <<>> /\ env.failAt <= Len(calls)
    THEN [status |-> "diverges", value |-> NoneV, calls |-> calls]
    ELSE LET r == stream_read(env, calls, stream, 1)
         IN  IF r.status # "ok" THEN r
             ELSE read_ieee_block_scan(env, r.calls, Unserved(stream, 1), r.value.v)

\* _read_ieee_block without the scan for '#': the byte read first is taken
\* for the marker
read_ieee_block_NoScan(env, calls) ==
    LET r == stream_read(env, calls, env.rx, 1)
    IN  IF r.status # "ok" THEN r
        ELSE IF Len(r.value.v) = 0 THEN Ret(BytesV(<<>>), r.calls)
        ELSE read_ieee_block_body(env, r.calls, Unserved(env.rx, 1))

\* Driver._read_ieee_block(); env.rx: the bytes the transport holds
read_ieee_block(env, calls) ==
    LET r == stream_read(env, calls, env.rx, 1)
    IN  IF r.status # "ok" THEN r
        ELSE IF Len(r.value.v) = 0 THEN Ret(BytesV(<<>>), r.calls)
        ELSE read_ieee_block_scan(env, r.calls, Unserved(env.rx, 1), r.value.v)

\* Driver._ask_for_ieee_block(data)
ask_for_ieee_block(env, calls, d) ==
    LET w == write(env, calls, d)
    IN  IF w.status # "ok" THEN w ELSE read_ieee_block(env, w.calls)

\* Driver._write_ieee_block(data, prefix): prefix is None, a str or bytes
write_ieee_block(env, calls, d, prefix) ==
    LET head == IF prefix.t = "str" THEN encode(prefix).v
                ELSE IF prefix.t = "bytes" THEN prefix.v
                ELSE <<>>
        blk == BCat(FromSeq(head), build_ieee_block(FromSeq(d.v)))
    IN  write_raw(env, calls, BytesV(ToSeq(blk)))

\* an I/O call on the session: it changes no field of the session
IOCall(op, args, r) ==
    /\ last' = Outcome(op, args, r.status, r.value, r.calls)
    /\ UNCHANGED <<globals, interface, initialized, driver_operation, prefer_pyvisa,
                   io_resource_descriptor, cache_valid>>

\* ------------------------------------------------- the per-model drivers
\* the Python strs of the drivers' dicts, as bytes
W ==
    [sam |-> <<115, 97, 109>>, sample |-> <<115, 97, 109, 112, 108, 101>>,
     ave |-> <<97, 118, 101>>, average |-> <<97, 118, 101, 114, 97, 103, 101>>,
     normal |-> <<110, 111, 114, 109, 97, 108>>,
     ris |-> <<114, 105, 115>>, rise |-> <<114, 105, 115, 101>>,
     fall |-> <<102, 97, 108, 108>>, either |-> <<101, 105, 116, 104, 101, 114>>,
     positive |-> <<112, 111, 115, 105, 116, 105, 118, 101>>,
     negative |-> <<110, 101, 103, 97, 116, 105, 118, 101>>]

\* a dict literal with keys and values given as pairs
DictOf(pairs) == [k \in {p[1] : p \in pairs} |-> (CHOOSE p \in pairs : p[1] = k)[2]]

\* self._acq_get_map, self._acq_set_map, self._trigger_get_map and
\* self._trigger_set_map of tektronixMSO2000
maps ==
    [acq_get |->
         DictOf({<<W.sam, W.normal>>, <<W.sample, W.normal>>, <<W.ave, W.average>>,
                 <<W.average, W.average>>}),
     acq_set |-> DictOf({<<W.normal, W.sam>>, <<W.average, W.ave>>}),
     trigger_get |->
         DictOf({<<W.rise, W.positive>>, <<W.ris, W.positive>>, <<W.fall, W.negative>>,
                 <<W.either, W.either>>}),
     trigger_set |->
         DictOf({<<W.positive, W.ris>>, <<W.negative, W.fall>>, <<W.either, W.either>>})]

\* str.lower() on ASCII
lower(s) == [i \in 1..Len(s) |-> IF s[i] \in 65..90 THEN s[i] + 32 ELSE s[i]]

FloatV(n) == [t |-> "float", v |-> <<n>>]

\* float(x) and int(x) of a str reply or of a number; over the values
\* modelled here a str converts when it is a string of digits between blanks
to_number(kind, x, calls) ==
    IF x.t \in {"int", "float"} THEN Ret([t |-> kind, v |-> x.v], calls)
    ELSE LET s == rstrip_ws(lstrip_ws(x.v))
         IN  IF IntOk(s) THEN Ret([t |-> kind, v |-> <<IntVal(s)>>], calls)
             ELSE Raise("ValueError", calls)

\* the cached getters of the per-model drivers.  Each is
\*     if not self._driver_operation_simulate and not self._get_cache_valid():
\*         self.<stores> = <parse>(self._ask(<query>))
\*         self._set_cache_valid()
\*     return self.<returns>
\* parse: "map" for a dict looked up with the lowered reply, "str" for the
\* reply as it is, "float" or "int"; divisions: self._horizontal_divisions
\* where the accessor also stores self._timebase_range
Getters ==
    [acquisition_type |->
         [cls |-> {"tektronixMSO2000"}, query |-> ":acquire:mode?",
          parse |-> "map", map |-> maps.acq_get, divisions |-> 0,
          stores |-> "_acquisition_type", returns |-> "_acquisition_type"],
     trigger_edge_slope |->
         [cls |-> {"tektronixMSO2000"}, query |-> ":trigger:a:edge:slope?",
          parse |-> "map", map |-> maps.trigger_get, divisions |-> 0,
          stores |-> "_trigger_edge_slope", returns |-> "_trigger_edge_slope"],
     acquisition_horizontal_mode |->
         [cls |-> {"tektronixDPO5000", "tektronixDPO7000"}, query |-> ":horizontal:mode?",
          parse |-> "str", map |-> <<>>, divisions |-> 0,
          stores |-> "_acquisition_horizontal_mode", returns |-> "_aquisition_horizontal_mode"],
     acquisition_horizontal_roll |->
         [cls |-> {"tektronixDPO5000", "tektronixDPO7000"}, query |-> ":horizontal:roll?",
          parse |-> "str", map |-> <<>>, divisions |-> 0,
          stores |-> "_horizontal_roll", returns |-> "_acquisition_horizontal_roll"],
     timebase_scale |->
         [cls |-> {"tektronixDPO5000", "tektronixDPO7000"}, query |-> ":horizontal:mode:scale?",
          parse |-> "float", map |-> <<>>, divisions |-> 10,
          stores |-> "_timebase_scale", returns |-> "_timebase_scale"],
     acquisition_number_of_points_minimum |->
         [cls |-> {"tektronixDPO5000", "tektronixDPO7000"},
          query |-> ":horizontal:mode:recordlength?", parse |-> "int",
          map |-> <<>>, divisions |-> 0,
          stores |-> "_acquisition_number_of_points_minimum",
          returns |-> "_acquisition_number_of_points_minimum"],
     acquisition_analog_sample_rate |->
         [cls |-> {"agilentMSO9064A"}, query |-> ":acquire:srate:analog?", parse |-> "str",
          map |-> <<>>, divisions |-> 0,
          stores |-> "_acquisition__analog_sample_rate",
          returns |-> "_acquisition__analog_sample_rate"]]

\* the setters.  check: "map" for a dict the value must be a key of (and
\* whose entry is sent), "float", "int" for value = float(value),
\* int(value), or "" for no check; format: the command written when not
\* simulating, with its conversion, or <<>> when the setter writes nothing;
\* marks: whether the setter ends with self._set_cache_valid()
Setters ==
    [acquisition_type |->
         [check |-> "map", map |-> maps.acq_set, divisions |-> 0,
          format |-> <<":acquire:mode %s", "%s">>,
          stores |-> "_acquisition_type", marks |-> TRUE],
     trigger_edge_slope |->
         [check |-> "map", map |-> maps.trigger_set, divisions |-> 0,
          format |-> <<":trigger:a:edge:slope %s", "%s">>,
          stores |-> "_trigger_edge_slope", marks |-> TRUE],
     acquisition_horizontal_mode |->
         [check |-> "", map |-> <<>>, divisions |-> 0,
          format |-> <<":horizontal:mode %e", "%e">>,
          stores |-> "_acquisition_horizontal_mode", marks |-> TRUE],
     acquisition_horizontal_roll |->
         [check |-> "", map |-> <<>>, divisions |-> 0,
          format |-> <<":horizontal:roll %e", "%e">>,
          stores |-> "_acquisition_horizontal_roll", marks |-> TRUE],
     timebase_scale |->
         [check |-> "float", map |-> <<>>, divisions |-> 10,
          format |-> <<":horizontal:mode:scale %e", "%e">>,
          stores |-> "_timebase_scale", marks |-> TRUE],
     acquisition_number_of_points_minimum |->
         [check |-> "int", map |-> <<>>, divisions |-> 0,
          format |-> <<":horizontal:mode:recordlength %d", "%d">>,
          stores |-> "_acquisition_number_of_points_minimum", marks |-> TRUE],
     acquisition_analog_sample_rate |->
         [check |-> "float", map |-> <<>>, divisions |-> 0, format |-> <<>>,
          stores |-> "_acquisition_analog_sample_rate", marks |-> FALSE]]

\* the outcome of an accessor: as for an I/O call, with the instance
\* attributes and the cache dictionary it leaves
Done(status, value, calls, attrs, cache) ==
    [status |-> status, value |-> value, calls |-> calls, attributes |-> attrs,
     cache |-> cache]

\* "return self.<field>"
return_attribute(field, calls, attrs, cache) ==
    IF field \in DOMAIN attrs THEN Done("ok", attrs[field], calls, attrs, cache)
    ELSE Done("AttributeError", NoneV, calls, attrs, cache)

\* the value a getter derives from the reply to its query
parse_reply(g, reply, calls) ==
    CASE g.parse = "map" ->
             IF lower(reply.v) \in DOMAIN g.map
             THEN Ret(StrV(g.map[lower(reply.v)]), calls)
             ELSE Raise("KeyError", calls)
      [] g.parse = "str" -> Ret(reply, calls)
      [] OTHER -> to_number(g.parse, reply, calls)

\* self._timebase_range = <scale> * self._horizontal_divisions, where stored
with_range(row, attrs, scale) ==
    IF row.divisions > 0
    THEN DictSet(attrs, "_timebase_range", FloatV(scale.v[1] * row.divisions))
    ELSE attrs

\* a getter that queries the instrument whatever the cache says
get_cached_Uncached(env, a) ==
    LET g == Getters[a]
        r == ask(env, <<>>, StrV(<<g.query, <<>>>>), -1)
        p == IF r.status = "ok" THEN parse_reply(g, r.value, r.calls) ELSE r
    IN  IF p.status # "ok" THEN Done(p.status, NoneV, p.calls, attributes, cache_valid)
        ELSE return_attribute(g.returns, p.calls,
                              with_range(g, DictSet(attributes, g.stores, p.value), p.value),
                              DictSet(cache_valid, CacheKey(a, -1), TRUE))

\* the cached getter _get_<a> of a per-model driver
get_cached(env, a) ==
    LET g == Getters[a]
    IN  IF driver_operation.simulate
        THEN return_attribute(g.returns, <<>>, attributes, cache_valid)
        ELSE LET c == get_cache_valid(a, -1, FALSE)
             IN  IF c.value THEN return_attribute(g.returns, <<>>, attributes, c.cache)
                 ELSE LET r == ask(env, <<>>, StrV(<<g.query, <<>>>>), -1)
                          p == IF r.status = "ok" THEN parse_reply(g, r.value, r.calls)
                               ELSE r
                      IN  IF p.status # "ok"
                          THEN Done(p.status, NoneV, p.calls, attributes, c.cache)
                          ELSE return_attribute(
                                   g.returns, p.calls,
                                   with_range(g, DictSet(attributes, g.stores, p.value),
                                              p.value),
                                   DictSet(c.cache, CacheKey(a, -1), TRUE))

\* the setter _set_<a> of a per-model driver; timebase_scale also marks
\* 'timebase_window_range' not valid
set_cached(env, a, value) ==
    LET s == Setters[a]
        v == IF s.check \in {"float", "int"} THEN to_number(s.check, value, <<>>)
             ELSE Ret(value, <<>>)
        w == IF s.format = <<>> \/ driver_operation.simulate THEN Ret(NoneV, <<>>)
             ELSE IF s.format[2] # "%s" /\ v.value.t \notin {"int", "float"}
             THEN Raise("TypeError", <<>>)
             ELSE write(env, <<>>,
                        StrV(<<s.format[1],
                               IF s.check = "map" THEN s.map[value.v] ELSE v.value.v>>))
        marked == IF s.marks THEN DictSet(cache_valid, CacheKey(a, -1), TRUE)
                  ELSE cache_valid
    IN  IF s.check = "map" /\ value.v \notin DOMAIN s.map
        THEN Done("ValueNotSupportedException", NoneV, <<>>, attributes, cache_valid)
        ELSE IF v.status # "ok" THEN Done(v.status, NoneV, <<>>, attributes, cache_valid)
        ELSE IF w.status # "ok" THEN Done(w.status, NoneV, w.calls, attributes, cache_valid)
        ELSE Done("ok", NoneV, w.calls,
                  with_range(s, DictSet(attributes, s.stores, v.value), v.value),
                  IF s.divisions > 0
                  THEN DictSet(marked, CacheKey("timebase_window_range", -1), FALSE)
                  ELSE marked)

\* a call of an accessor on the session
MaxAccessors == 1

AccessorCall(op, args, r) ==
    /\ attributes' = r.attributes
    /\ cache_valid' = r.cache
    /\ last' = Outcome(op, args, r.status, r.value, r.calls)
    /\ UNCHANGED <<globals, interface, initialized, driver_operation, prefer_pyvisa,
                   io_resource_descriptor, lock, codecVars>>

\* the accessors a session may call next: those of its class, of which it
\* uses at most MaxAccessors; one it has used has left a cache entry or a
\* stored value
Usable ==
    LET Accessors == {a \in DOMAIN Getters : attributes["__class__"].v \in Getters[a].cls}
        Used == {a \in Accessors : \/ CacheKey(a, -1) \in DOMAIN cache_valid
                                   \/ Getters[a].stores \in DOMAIN attributes
                                   \/ Setters[a].stores \in DOMAIN attributes}
    IN  {a \in Accessors : Cardinality(Used \cup {a}) <= MaxAccessors}

DoGet(envs) == \E env \in envs, a \in Usable : AccessorCall("_get", <<a>>, get_cached(env, a))

DoSet(envs, values) ==
    \E env \in envs, a \in Usable, value \in values :
        AccessorCall("_set", <<a, value>>, set_cached(env, a, value))

\* --------------------------------------------------------- specifications
\* the codec applied to one input; the session stays as constructed
InitCodec ==
    /\ data \in Inputs
    /\ block = <<>>
    /\ decoded = NotCalled
    /\ cpc = "start"
    /\ globals = {}
    /\ prefer_pyvisa = FALSE
    /\ InitSession

\* block = build_ieee_block(data)
Build ==
    /\ cpc = "start"
    /\ block' = build_ieee_block(data)
    /\ cpc' = "built"
    /\ UNCHANGED <<data, decoded, sessionVars, last>>

\* decode_ieee_block(build_ieee_block(data))
DecodeBlock ==
    /\ cpc = "built"
    /\ decoded' = decode_ieee_block(block)
    /\ cpc' = "roundtrip"
    /\ UNCHANGED <<data, block, sessionVars, last>>

\* decode_ieee_block(data)
Decode ==
    /\ cpc = "start"
    /\ decoded' = decode_ieee_block(data)
    /\ cpc' = "decoded"
    /\ UNCHANGED <<data, block, sessionVars, last>>

NextCodec == Build \/ DecodeBlock \/ Decode

SpecCodec == InitCodec /\ [][NextCodec]_vars

\* the environments: which backend modules could be imported

\* a session constructed without arguments, in one of the environments
\* (which backend modules could be imported: none, or vxi11 and pyvisa);
\* self._prefer_pyvisa inherits the module-level _prefer_pyvisa
Init ==
    /\ data = <<>>
    /\ block = <<>>
    /\ decoded = NotCalled
    /\ cpc = "idle"
    /\ globals \in {{}, {"vxi11", "pyvisa"}}
    /\ prefer_pyvisa = FALSE
    /\ InitSession

\* the inputs of the session operations
\* resource strings, and objects handed to initialize in place of one
Resources ==
    ResourcesOf(
        ResourceStrings,
        {[cls |-> "vxi11.Instrument", methods |-> RequiredMethods \cup OptionalMethods],
         [cls |-> "user", methods |-> RequiredMethods],
         [cls |-> "user", methods |-> {"write", "read", "ask"}]})
Commands == {StrV(<<CH_A>>), ListV(<<StrV(<<CH_A>>), StrV(<<CH_D>>)>>)}
RawData == {BytesV(<<CH_A>>)}
Replies == {<<ZERO + 7, CR, LF>>}
Behaviours == TransportBehaviours(MaxFail, {"IOError", "NotImplementedError"}, Replies)
\* the block reads are served from '#12DA'; the payloads written are 'A',
\* bare or after the prefix 'D'
BlockBehaviours ==
    TransportBehaviours(MaxFail, {"IOError", "NotImplementedError"},
                        {<<HASH, ZERO + 1, ZERO + 2, CH_D, CH_A>>})

\* one action for each operation; its inputs are drawn from the sets it is
\* given, so that every specification runs the same operations on inputs of
\* its own
DoInitialize(resources, optionLists) ==
    /\ \E resource \in resources, keywargs \in optionLists : Initialize(resource, keywargs)
    /\ UNCHANGED <<codecVars, driverVars>>

DoClose ==
    /\ \E close_ok \in BOOLEAN : Close(close_ok)
    /\ UNCHANGED <<codecVars, driverVars>>

DoSetSimulate ==
    /\ \E value \in PyVals : SetSimulate(value)
    /\ UNCHANGED <<codecVars, driverVars>>

DoSetOperationCache ==
    /\ \E value \in PyVals : SetOperationCache(value)
    /\ UNCHANGED <<codecVars, driverVars>>

DoGetCacheValid(tags, indexes) ==
    /\ \E tag \in tags, index \in indexes, skip_disable \in BOOLEAN :
          GetCacheValid(tag, index, skip_disable)
    /\ UNCHANGED <<codecVars, driverVars>>

DoSetCacheValid(tags, indexes) ==
    /\ \E valid \in BOOLEAN, tag \in tags, index \in indexes :
          SetCacheValid(valid, tag, index)
    /\ UNCHANGED <<codecVars, driverVars>>

DoInvalidateAll ==
    /\ InvalidateAll
    /\ UNCHANGED <<codecVars, driverVars>>

DoWriteRaw(envs, raw) ==
    /\ \E env \in envs, d \in raw :
          IOCall("write_raw", <<d>>, write_raw(env, <<>>, d))
    /\ UNCHANGED <<codecVars, driverVars>>

DoReadRaw(envs, sizes) ==
    /\ \E env \in envs, num \in sizes :
          IOCall("read_raw", <<IntV(num)>>, read_raw(env, <<>>, num))
    /\ UNCHANGED <<codecVars, driverVars>>

DoAskRaw(envs, raw, sizes) ==
    /\ \E env \in envs, d \in raw, num \in sizes :
          IOCall("ask_raw", <<d, IntV(num)>>, ask_raw(env, <<>>, d, num))
    /\ UNCHANGED <<codecVars, driverVars>>

DoWrite(envs, commands) ==
    /\ \E env \in envs, d \in commands :
          IOCall("write", <<d>>, write(env, <<>>, d))
    /\ UNCHANGED <<codecVars, driverVars>>

DoRead(envs, sizes) ==
    /\ \E env \in envs, num \in sizes :
          IOCall("read", <<IntV(num)>>, read(env, <<>>, num))
    /\ UNCHANGED <<codecVars, driverVars>>

DoAsk(envs, commands, sizes) ==
    /\ \E env \in envs, d \in commands, num \in sizes :
          IOCall("ask", <<d, IntV(num)>>, ask(env, <<>>, d, num))
    /\ UNCHANGED <<codecVars, driverVars>>

DoReadStb(envs) ==
    /\ \E env \in envs : IOCall("read_stb", <<>>, read_stb(env, <<>>))
    /\ UNCHANGED <<codecVars, driverVars>>

DoTrigger(envs) ==
    /\ \E env \in envs : IOCall("trigger", <<>>, trigger(env, <<>>))
    /\ UNCHANGED <<codecVars, driverVars>>

DoClear(envs) ==
    /\ \E env \in envs : IOCall("clear", <<>>, clear(env, <<>>))
    /\ UNCHANGED <<codecVars, driverVars>>

DoRemote(envs) ==
    /\ \E env \in envs : IOCall("remote", <<>>, remote(env, <<>>))
    /\ UNCHANGED <<codecVars, driverVars>>

DoLocal(envs) ==
    /\ \E env \in envs : IOCall("local", <<>>, local(env, <<>>))
    /\ UNCHANGED <<codecVars, driverVars>>

\* args records the bytes the transport holds when the read starts
DoReadIeeeBlock(envs) ==
    /\ \E env \in envs :
          IOCall("read_ieee_block", <<BytesV(env.rx)>>, read_ieee_block(env, <<>>))
    /\ UNCHANGED <<codecVars, driverVars>>

DoAskForIeeeBlock(envs, commands) ==
    /\ \E env \in envs, d \in commands :
          IOCall("ask_for_ieee_block", <<d>>, ask_for_ieee_block(env, <<>>, d))
    /\ UNCHANGED <<codecVars, driverVars>>

DoWriteIeeeBlock(envs, raw, prefixes) ==
    /\ \E env \in envs, d \in raw, prefix \in prefixes :
          IOCall("write_ieee_block", <<d, prefix>>, write_ieee_block(env, <<>>, d, prefix))
    /\ UNCHANGED <<codecVars, driverVars>>

Next ==
    \/ DoInitialize(Resources, OptionLists)
    \/ DoClose
    \/ DoSetSimulate
    \/ DoSetOperationCache
    \/ DoGetCacheValid({"acquisition_type"}, {-1})
    \/ DoSetCacheValid({"acquisition_type"}, {-1})
    \/ DoInvalidateAll
    \/ DoWriteRaw(Behaviours, RawData)
    \/ DoReadRaw(Behaviours, {-1})
    \/ DoAskRaw(Behaviours, RawData, {-1})
    \/ DoWrite(Behaviours, Commands)
    \/ DoRead(Behaviours, {-1})
    \/ DoAsk(Behaviours, Commands, {-1})
    \/ DoReadStb(Behaviours)
    \/ DoTrigger(Behaviours)
    \/ DoClear(Behaviours)
    \/ DoRemote(Behaviours)
    \/ DoLocal(Behaviours)
    \/ DoReadIeeeBlock(BlockBehaviours)
    \/ DoAskForIeeeBlock(BlockBehaviours, Commands)
    \/ DoWriteIeeeBlock(Behaviours, RawData, {NoneV, StrV(<<CH_D>>)})

Spec == Init /\ [][Next]_vars

\* the attribute cache on its own: three tags, two of which differ by the
\* suffix of an index, each without and with an index,
\* on a session that is initialized, re-initialized and closed
AttributeTags == {"acquisition_type", "acquisition_type_0", "timebase_window_range"}
AttributeIndexes == {-1, 0}
CacheResources == ResourcesOf({"TCPIP0::10.0.0.1::gpib,5::INSTR"}, {})
CacheOptionLists ==
    {<<>>, <<Option("simulate", "True")>>, <<Option("cache", "False")>>,
     <<Option("bogus", "1")>>, <<Option("cache", "False"), Option("bogus", "1")>>}

InitCache ==
    /\ data = <<>>
    /\ block = <<>>
    /\ decoded = NotCalled
    /\ cpc = "idle"
    /\ globals = {"vxi11"}
    /\ prefer_pyvisa = FALSE
    /\ InitSession

NextCache ==
    \/ DoInitialize(CacheResources, CacheOptionLists)
    \/ DoClose
    \/ DoSetOperationCache
    \/ DoGetCacheValid(AttributeTags, AttributeIndexes)
    \/ DoSetCacheValid(AttributeTags, AttributeIndexes)
    \/ DoInvalidateAll

SpecCache == InitCache /\ [][NextCache]_vars

\* initialize and close on their own, in every environment: each set of
\* importable backend modules, the module-level _prefer_pyvisa set or not
\* before the session is constructed
\* a string the resource grammar does not match, besides 'VXI0::1::INSTR'
UngrammaticalStrings == {"TCPIP0::10.0.0.1::SOCKET"}

\* objects handed to initialize: instruments of the native backends, an
\* object of a class that defines read_raw and write_raw, one of a class
\* that defines neither, and one of a subclass that inherits every transport
\* method from its base class and defines none itself
LocatorResources ==
    ResourcesOf(
        ResourceStrings \cup UngrammaticalStrings,
        {[cls |-> "vxi11.Instrument", methods |-> RequiredMethods \cup OptionalMethods],
         [cls |-> "usbtmc.Instrument", methods |-> RequiredMethods \cup OptionalMethods],
         [cls |-> "user", methods |-> RequiredMethods],
         [cls |-> "user", methods |-> {"write", "read", "ask"}]})
    \cup {InheritingResource([cls |-> "subclass",
                              methods |-> RequiredMethods \cup OptionalMethods])}

\* an instrument of a native backend exists only where its module imports
Obtainable(resource) ==
    /\ resource.obj.cls = "vxi11.Instrument" => "vxi11" \in globals
    /\ resource.obj.cls = "usbtmc.Instrument" => "usbtmc" \in globals

LocatorOptionLists ==
    {<<>>,
     <<Option("prefer_pyvisa", "True")>>,
     <<Option("prefer_pyvisa", "False")>>,
     <<Option("simulate", "True")>>,
     <<Option("bogus", "1")>>,
     <<Option("prefer_pyvisa", "True"), Option("bogus", "1")>>}

InitLocator ==
    /\ data = <<>>
    /\ block = <<>>
    /\ decoded = NotCalled
    /\ cpc = "idle"
    /\ globals \in SUBSET {"vxi11", "usbtmc", "linuxgpib", "pyserial", "pyvisa"}
    /\ prefer_pyvisa \in BOOLEAN
    /\ InitSession

NextLocator ==
    \/ DoInitialize({r \in LocatorResources : Obtainable(r)}, LocatorOptionLists)
    \/ DoClose

SpecLocator == InitLocator /\ [][NextLocator]_vars

\* the I/O operations on their own, on a session bound to a transport
\* object: one that has every method, one that has only read_raw and
\* write_raw, and one that has the raw and the string write and read but no
\* ask, no ask_raw and no bus command
IOTransports ==
    {[cls |-> "user", methods |-> RequiredMethods \cup OptionalMethods],
     [cls |-> "user", methods |-> RequiredMethods],
     [cls |-> "user", methods |-> RequiredMethods \cup {"write", "read"}]}

\* a transport call may fail at any of the first 2 * MaxFail calls of an
\* operation, with an error of its own, with NotImplementedError, or with
\* an AttributeError raised inside the method
IOFailKinds == {"IOError", "NotImplementedError", "AttributeError"}
IOBehaviours == TransportBehaviours(2 * MaxFail, IOFailKinds, Replies)

IOCommands ==
    {StrV(<<CH_A>>), ListV(<<>>), ListV(<<StrV(<<CH_A>>), StrV(<<CH_D>>)>>)}
IOReadSizes == {-1, 2}

InitIO ==
    /\ data = <<>>
    /\ block = <<>>
    /\ decoded = NotCalled
    /\ cpc = "idle"
    /\ globals = {}
    /\ prefer_pyvisa = FALSE
    /\ InitSession

\* the byte streams served to the block read: 'A#12DAT', '#0DA', '#12D',
\* '#13DAT', 'A' (no '#') and the empty stream
NextIO ==
    \/ DoInitialize({ObjResource(o) : o \in IOTransports}, {<<>>})
    \/ DoWriteRaw(IOBehaviours, RawData)
    \/ DoReadRaw(IOBehaviours, IOReadSizes)
    \/ DoAskRaw(IOBehaviours, RawData, IOReadSizes)
    \/ DoWrite(IOBehaviours, IOCommands)
    \/ DoRead(IOBehaviours, IOReadSizes)
    \/ DoAsk(IOBehaviours, IOCommands, IOReadSizes)
    \/ DoReadStb(IOBehaviours)
    \/ DoTrigger(IOBehaviours)
    \/ DoClear(IOBehaviours)
    \/ DoRemote(IOBehaviours)
    \/ DoLocal(IOBehaviours)
    \/ DoReadIeeeBlock(
           TransportBehaviours(
               2 * MaxFail, IOFailKinds,
               {<<CH_A, HASH, ZERO + 1, ZERO + 2, CH_D, CH_A, CH_T>>,
                <<HASH, ZERO, CH_D, CH_A>>,
                <<HASH, ZERO + 1, ZERO + 2, CH_D>>,
                <<HASH, ZERO + 1, ZERO + 3, CH_D, CH_A, CH_T>>,
                <<CH_A>>,
                <<>>}))

SpecIO == InitIO /\ [][NextIO]_vars

\* the operations of DriverOperation and DriverUtility that keep lists and
\* the lock, on a session initialized with and without the options that ask
\* for records; two records 'A' and 'D', two callers
Callers == {"t1", "t2"}

NextUtility ==
    \/ DoInitialize(CacheResources,
                    {<<>>, <<Option("record_coercions", "True"),
                             Option("interchange_check", "True")>>})
    \/ \E r \in {<<CH_A>>, <<CH_D>>} : record_coercion(r)
    \/ \E r \in {<<CH_A>>, <<CH_D>>} : record_interchange_warning(r)
    \/ next_coercion_record
    \/ next_interchange_warning
    \/ clear_interchange_warnings
    \/ \E c \in Callers : lock_object(c)
    \/ \E c \in Callers : unlock_object(c)

SpecUtility == InitCache /\ [][NextUtility]_vars

\* the cached accessors of the per-model drivers, on a session of each
\* class bound to a transport that has every method or only read_raw and
\* write_raw, with the cache on or off and simulation on or off; the
\* instrument answers 'AVE' or '7'; the values set are 'normal',
\* 'positive' and 7.0

InitDriver ==
    /\ data = <<>>
    /\ block = <<>>
    /\ decoded = NotCalled
    /\ cpc = "idle"
    /\ globals = {}
    /\ prefer_pyvisa = FALSE
    /\ interface = NoInterface
    /\ initialized = FALSE
    /\ driver_operation = DriverOperationDefaults
    /\ io_resource_descriptor = ""
    /\ cache_valid = EmptyDict
    /\ lock = Unlocked
    /\ last = Outcome("__init__", <<>>, "ok", NoneV, <<>>)
    /\ \E cls \in UNION {Getters[a].cls : a \in DOMAIN Getters} :
           attributes = DictSet(EmptyDict, "__class__", [t |-> "type", v |-> cls])

NextDriver ==
    \/ DoInitialize({ObjResource(o) : o \in IOTransports},
                    {<<>>, <<Option("cache", "False")>>, <<Option("simulate", "True")>>})
    \/ DoInvalidateAll
    \/ DoGet(TransportBehaviours(MaxFail, {"IOError"}, {<<65, 86, 69>>, <<ZERO + 7>>}))
    \/ DoSet(TransportBehaviours(MaxFail, {"IOError"}, {<<65, 86, 69>>, <<ZERO + 7>>}),
             {StrV(W.normal), StrV(W.positive), FloatV(7)})

SpecDriver == InitDriver /\ [][NextDriver]_vars

\* ===================================================== claims on the codec
Bytes(s) == FromSeq(s)

\* the parts of a buffer, stated on its runs: number of bytes before run k
RECURSIVE RunStart(_, _)
RunStart(buf, k) == IF k <= 1 THEN 0 ELSE RunStart(buf, k - 1) + buf[k - 1].n

HasHash(buf) == \E k \in 1..Len(buf) : buf[k].b = HASH

\* position of the first '#' of a buffer that has one
FirstHash(buf) ==
    LET k == CHOOSE j \in 1..Len(buf) :
                 buf[j].b = HASH /\ \A i \in 1..(j - 1) : buf[i].b # HASH
    IN  RunStart(buf, k)

\* the byte at position i (0-based), or -1 past the end
ByteAt(buf, i) ==
    IF \E k \in 1..Len(buf) : RunStart(buf, k) <= i /\ i < RunStart(buf, k) + buf[k].n
    THEN buf[CHOOSE k \in 1..Len(buf) :
                 RunStart(buf, k) <= i /\ i < RunStart(buf, k) + buf[k].n].b
    ELSE -1

\* the digit count l that follows the first '#', or -1
CountDigit(buf) ==
    IF HasHash(buf) /\ IsDigit(ByteAt(buf, FirstHash(buf) + 1))
    THEN ByteAt(buf, FirstHash(buf) + 1) - ZERO
    ELSE -1

\* the l bytes of the length field are all present and all digits
FieldOk(buf) ==
    /\ CountDigit(buf) >= 1
    /\ \A i \in 1..CountDigit(buf) : IsDigit(ByteAt(buf, FirstHash(buf) + 1 + i))

\* the number the length field announces
FieldNum(buf) ==
    IntVal([i \in 1..CountDigit(buf) |-> ByteAt(buf, FirstHash(buf) + 1 + i)])

\* number of bytes up to and including the length field
HeaderLen(buf) == FirstHash(buf) + 2 + CountDigit(buf)

\* C1: for every byte sequence p, decode_ieee_block(build_ieee_block(p)) = p.
C1_RoundTrip ==
    cpc = "roundtrip" => decoded = Returned(data)

\* C2: build_ieee_block(p) is exactly '#8', then len(p) rendered on 8
\* zero-padded decimal digits, then p, whatever the payload length.
C2_EightDigitHeader ==
    cpc \in {"built", "roundtrip"} =>
        /\ BLen(block) = 10 + BLen(data)
        /\ BTake(block, 2) = Bytes(<<HASH, ZERO + 8>>)
        /\ LET field == ToSeq(BSlice(block, 2, 10))
           IN  Len(field) = 8 /\ IntOk(field) /\ IntVal(field) = BLen(data)
        /\ BDrop(block, 10) = data

\* C3: on noise without '#', then '#', a digit l in 1..9, l digits giving
\* num and at least num more bytes, decode_ieee_block returns exactly the
\* num bytes after the length field; '#800000004DATA' decodes to 'DATA'.
C3_DecodeFramed ==
    cpc = "decoded" =>
        /\ (FieldOk(data) /\ BLen(data) - HeaderLen(data) >= FieldNum(data)) =>
              /\ decoded.status = "ok"
              /\ BLen(decoded.value) = FieldNum(data)
              /\ BCat(BCat(BTake(data, HeaderLen(data)), decoded.value),
                      BDrop(data, HeaderLen(data) + FieldNum(data))) = data
        /\ (data = Bytes(<<HASH, ZERO + 8>> \o ZeroPad(<<ZERO + 4>>, 8) \o Pattern(4))) =>
              decoded = Returned(Bytes(<<CH_D, CH_A, CH_T, CH_A>>))

\* reached: noise, an 8-digit header announcing 4, payload and trailing bytes
C3_Witness ==
    /\ cpc = "decoded"
    /\ data = Bytes(<<CH_A>> \o <<HASH, ZERO + 8>> \o ZeroPad(<<ZERO + 4>>, 8) \o Pattern(6))
    /\ decoded = Returned(Bytes(<<CH_D, CH_A, CH_T, CH_A>>))

\* C4: when the digit after the first '#' is 0, decode_ieee_block returns
\* the whole remainder of the buffer after that digit.
C4_OpenEndedBlock ==
    (cpc = "decoded" /\ CountDigit(data) = 0) =>
        /\ decoded.status = "ok"
        /\ BCat(BTake(data, FirstHash(data) + 2), decoded.value) = data

\* reached: 'A#0A2' decoded to 'A2'
C4_Witness ==
    /\ cpc = "decoded"
    /\ data = Bytes(<<CH_A, HASH, ZERO, CH_A, ZERO + 2>>)
    /\ decoded = Returned(Bytes(<<CH_A, ZERO + 2>>))

\* C5: when a well-formed header announces num bytes and fewer remain,
\* decode_ieee_block raises nothing and returns exactly the bytes that remain.
C5_TruncatedSlice ==
    (cpc = "decoded" /\ FieldOk(data) /\ BLen(data) - HeaderLen(data) < FieldNum(data)) =>
        /\ decoded.status = "ok"
        /\ BLen(decoded.value) = BLen(data) - HeaderLen(data)
        /\ BCat(BTake(data, HeaderLen(data)), decoded.value) = data

\* reached: '#14DA' (4 bytes announced, 2 present) decoded to 'DA'
C5_Witness ==
    /\ cpc = "decoded"
    /\ data = Bytes(<<HASH, ZERO + 1, ZERO + 4, CH_D, CH_A>>)
    /\ decoded = Returned(Bytes(<<CH_D, CH_A>>))

\* =================================================== claims on the session
IOOps == {"write_raw", "read_raw", "ask_raw", "write", "read", "ask", "read_stb",
          "trigger", "clear", "remote", "local"}

\* C6: a new session is not initialized; initialized becomes true only by an
\* initialize call that returns without error; after close it is false; no
\* other operation changes the flag.
C6_Lifecycle ==
    /\ ~initialized
    /\ [](last.op = "close" => ~initialized)
    /\ [][initialized' # initialized =>
            \/ initialized' /\ last'.op = "initialize" /\ last'.status = "ok"
            \/ ~initialized' /\ last'.op = "close"]_vars

\* reached: a session initialized from a resource string and then closed
C6_Witness ==
    /\ last.op = "close"
    /\ ~initialized
    /\ io_resource_descriptor # ""

\* C7 as stated: in every reachable state, initialized implies that a
\* transport is bound to the session.
C7_InitializedImpliesTransport ==
    initialized => interface # NoInterface

\* C7 amended: an initialize call that succeeds with simulate false leaves a
\* transport bound, and the session comes to be initialized without a
\* transport only by an initialize call that ran with simulate true.
C7_TransportUnlessSimulated ==
    /\ [][(last'.op = "initialize" /\ last'.status = "ok" /\ ~driver_operation'.simulate)
            => (initialized' /\ interface' # NoInterface)]_vars
    /\ [][(initialized' /\ interface' = NoInterface)
            => \/ initialized /\ interface = NoInterface
               \/ last'.op = "initialize" /\ driver_operation'.simulate]_vars

\* reached: initialized by a simulated initialize, no transport bound
C7_Witness ==
    /\ initialized
    /\ interface = NoInterface
    /\ driver_operation.simulate
    /\ last.op = "initialize"
    /\ last.status = "ok"

C9_AlreadyInitialized ==
    [][(initialized /\ last'.op = "initialize")
         => last'.status = "AlreadyInitializedException"]_vars

\* C10: with simulate false, every I/O operation on a session that was never
\* initialized, or that was closed, raises NotInitialized and calls no
\* transport method.
C10_NotInitialized ==
    [][(~initialized /\ ~driver_operation.simulate /\ last'.op \in IOOps)
         => (last'.status = "NotInitializedException" /\ last'.calls = <<>>)]_vars

\* reached: an I/O call refused on a session that had been initialized from a
\* resource string and closed
C10_Witness ==
    /\ last.op \in IOOps
    /\ last.status = "NotInitializedException"
    /\ last.calls = <<>>
    /\ ~initialized
    /\ ~driver_operation.simulate
    /\ io_resource_descriptor # ""

\* ================================================= claims on simulation
BlockOps == {"read_ieee_block", "ask_for_ieee_block", "write_ieee_block"}

\* C11: while simulate is true no I/O operation (write_raw, read_raw, ask_raw,
\* write, read, ask, read_stb, trigger, clear, remote, local, the IEEE block
\* reads and write) calls a transport method; read and ask return '' and
\* read_raw and ask_raw return b''.
C11_SimulateNoTransport ==
    [][(driver_operation.simulate /\ last'.op \in IOOps \cup BlockOps)
         => /\ last'.calls = <<>>
            /\ last'.op \in {"read", "ask"} => last'.value = StrV(<<>>)
            /\ last'.op \in {"read_raw", "ask_raw"} => last'.value = BytesV(<<>>)]_vars

\* C12: while simulate is true each of the eleven I/O operations returns
\* without error, initialized or not, with the empty or zero value of its
\* type: None for the writes and the bus commands, b'' for the raw reads, ''
\* for the reads, 0 for read_stb.
C12_SimulateReturnsEmpty ==
    [][(driver_operation.simulate /\ last'.op \in IOOps)
         => /\ last'.status = "ok"
            /\ last'.value =
                 CASE last'.op \in {"read_raw", "ask_raw"} -> BytesV(<<>>)
                   [] last'.op \in {"read", "ask"} -> StrV(<<>>)
                   [] last'.op = "read_stb" -> IntV(0)
                   [] OTHER -> NoneV]_vars

\* C13: assigning a false value to simulate while it is true raises
\* SimulationStateException and leaves it true; assigning a true value
\* succeeds from either value and leaves it true.
C13_SimulateSetter ==
    /\ [][(last'.op = "simulate.setter" /\ driver_operation.simulate
           /\ last'.args[1] \in {"False", "0"})
            => (last'.status = "SimulationStateException" /\ driver_operation'.simulate)]_vars
    /\ [][(last'.op = "simulate.setter" /\ last'.args[1] \in {"True", "1"})
            => (last'.status = "ok" /\ driver_operation'.simulate)]_vars

\* reached: the setter refused to turn simulation off
C13_Witness ==
    /\ last.op = "simulate.setter"
    /\ last.args[1] \in {"False", "0"}
    /\ last.status = "SimulationStateException"
    /\ driver_operation.simulate

\* C14: once simulate is true no operation of the session (the setter,
\* initialize with any options, close) makes it false again.
C14_SimulateNeverCleared ==
    [][driver_operation.simulate => driver_operation'.simulate]_vars

\* ================================================ claims on the cache
\* what _get_cache_valid(tag, index) would return now
Reports(tag, index, value) ==
    ENABLED (GetCacheValid(tag, index, FALSE) /\ last'.value = BoolV(value))

\* the validity flag of (tag, index), whatever the cache option: what
\* _get_cache_valid(tag, index, skip_disable=True) would return now
Marked(tag, index) ==
    ENABLED (GetCacheValid(tag, index, TRUE) /\ last'.value = BoolV(TRUE))

MarksValid(o, tag, index) == o.op = "_set_cache_valid" /\ o.args = <<TRUE, tag, index>>
MarksInvalid(o, tag, index) == o.op = "_set_cache_valid" /\ o.args = <<FALSE, tag, index>>

\* C15: with the cache enabled, _get_cache_valid(tag, index) returns True
\* after _set_cache_valid(True, tag, index) and goes on returning True until
\* invalidate_all_attributes, initialize or _set_cache_valid(False, tag,
\* index); a pair never marked valid is reported invalid; a call of
\* _get_cache_valid changes the result of no later call.
C15_CacheMarkValid ==
    /\ [](\A tag \in AttributeTags, index \in AttributeIndexes :
             /\ (driver_operation.cache /\ MarksValid(last, tag, index))
                  => Reports(tag, index, TRUE)
             /\ last.op = "__init__" => ~Marked(tag, index)
             /\ Reports(tag, index, TRUE) => Marked(tag, index))
    /\ [][\A tag \in AttributeTags, index \in AttributeIndexes :
             /\ (driver_operation.cache /\ driver_operation'.cache
                 /\ Reports(tag, index, TRUE)
                 /\ last'.op \notin {"invalidate_all_attributes", "initialize"}
                 /\ ~MarksInvalid(last', tag, index))
                  => Reports(tag, index, TRUE)'
             /\ (~Marked(tag, index) /\ Marked(tag, index)')
                  => MarksValid(last', tag, index)
             /\ last'.op = "_get_cache_valid"
                  => /\ Marked(tag, index)' = Marked(tag, index)
                     /\ Reports(tag, index, TRUE)' = Reports(tag, index, TRUE)]_vars

\* reached: a pair reported valid, after it was marked valid and another
\* pair was asked about, with the cache enabled
C15_Witness ==
    /\ driver_operation.cache
    /\ last.op = "_get_cache_valid"
    /\ last.args = <<"acquisition_type", 0, FALSE>>
    /\ last.value = BoolV(FALSE)
    /\ Reports("acquisition_type", -1, TRUE)
    /\ Reports("timebase_window_range", 0, TRUE)

\* C16: after invalidate_all_attributes _get_cache_valid returns False for
\* every tag and index, and for each of them until it is marked valid again.
C16_InvalidateAll ==
    /\ [](last.op = "invalidate_all_attributes"
            => \A tag \in AttributeTags, index \in AttributeIndexes :
                  /\ Reports(tag, index, FALSE)
                  /\ ~Marked(tag, index))
    /\ [][\A tag \in AttributeTags, index \in AttributeIndexes :
             (Reports(tag, index, FALSE) /\ ~Marked(tag, index)
              /\ ~MarksValid(last', tag, index))
               => Reports(tag, index, FALSE)']_vars

\* reached: invalidate_all_attributes on an initialized session whose cache
\* is enabled
C16_Witness ==
    /\ last.op = "invalidate_all_attributes"
    /\ driver_operation.cache
    /\ initialized
    /\ \A tag \in AttributeTags, index \in AttributeIndexes : Reports(tag, index, FALSE)

\* C17: while the cache option is off, _get_cache_valid called without
\* skip_disable returns False for every tag and index, whatever was marked
\* valid, and creates or changes no entry of the cache.
C17_CacheDisabled ==
    /\ [](~driver_operation.cache
            => \A tag \in AttributeTags, index \in AttributeIndexes :
                  Reports(tag, index, FALSE))
    /\ [][(~driver_operation.cache /\ last'.op = "_get_cache_valid"
           /\ last'.args[3] = FALSE)
            => (last'.value = BoolV(FALSE) /\ cache_valid' = cache_valid)]_vars

\* reached: a pair that is marked valid reported invalid with the cache off
C17_Witness ==
    /\ ~driver_operation.cache
    /\ last.op = "_get_cache_valid"
    /\ last.args = <<"acquisition_type", 0, FALSE>>
    /\ last.value = BoolV(FALSE)
    /\ Marked("acquisition_type", 0)

\* C18: right after every initialize that succeeds _get_cache_valid returns
\* False for every tag and index: no validity flag survives the call.
C18_InitializeInvalidates ==
    (last.op = "initialize" /\ last.status = "ok")
        => \A tag \in AttributeTags, index \in AttributeIndexes :
              /\ Reports(tag, index, FALSE)
              /\ ~Marked(tag, index)

\* reached: a successful initialize that bound a transport, cache enabled
C18_Witness ==
    /\ last.op = "initialize"
    /\ last.status = "ok"
    /\ interface # NoInterface
    /\ driver_operation.cache
    /\ ~driver_operation.simulate

\* ============================================ claims on initialize
KnownOptions == {"range_check", "query_instr_status", "cache", "simulate",
                 "record_coercions", "interchange_check", "driver_setup", "prefer_pyvisa"}

HasUnknownKey(keywargs) == \E i \in 1..Len(keywargs) : keywargs[i].key \notin KnownOptions

\* C19: an initialize call whose options hold a key outside the eight
\* recognised ones fails with UnknownOptionException; the call binds no
\* transport and does not set the initialized flag.
C19_UnknownOption ==
    [][\A resource \in LocatorResources, keywargs \in LocatorOptionLists :
          (last'.op = "initialize" /\ HasUnknownKey(keywargs)
           /\ Initialize(resource, keywargs))
            => /\ last'.status = "UnknownOptionException"
               /\ interface' = interface
               /\ initialized' = initialized]_vars

\* reached: initialize(prefer_pyvisa=True, bogus=1) refused on a new
\* session, which stays without transport and uninitialized
C19_Witness ==
    /\ last.op = "initialize"
    /\ last.status = "UnknownOptionException"
    /\ prefer_pyvisa
    /\ "pyvisa" \in globals
    /\ io_resource_descriptor = ""
    /\ interface = NoInterface
    /\ ~initialized

\* the four resource types, a resource string of each, and for each type its
\* native backend module and the instrument class of each backend
TypedResources ==
    [TCPIP |-> "TCPIP0::10.0.0.1::gpib,5::INSTR", USB |-> "usb0::0x1234::0x5678::instr",
     GPIB |-> "GPIB0::10::INSTR", ASRL |-> "ASRL::COM1,9600,8n1::INSTR"]
NativeOf == [TCPIP |-> "vxi11", USB |-> "usbtmc", GPIB |-> "linuxgpib", ASRL |-> "pyserial"]
ClassOf ==
    [vxi11 |-> "vxi11.Instrument", usbtmc |-> "usbtmc.Instrument",
     linuxgpib |-> "linuxgpib.LinuxGpibInstrument",
     pyserial |-> "pyserial.SerialInstrument", pyvisa |-> "pyvisa.PyVisaInstrument"]

\* the backend the selection policy names, "none" when there is none
PolicyBackend(T, flag, available) ==
    IF flag /\ "pyvisa" \in available THEN "pyvisa"
    ELSE IF NativeOf[T] \in available THEN NativeOf[T]
    ELSE IF "pyvisa" \in available THEN "pyvisa"
    ELSE "none"

\* C20: for a resource string of type T in TCPIP, USB, GPIB, ASRL a
\* non-simulated initialize constructs the instrument of: pyvisa when the
\* session's prefer_pyvisa flag is set and pyvisa is available; else T's
\* native backend when available; else pyvisa when available; else it fails
\* with an IOException whose message names T. For every flag value, every
\* set of available backends and each of the four types.
C20_BackendSelection ==
    [][\A T \in DOMAIN TypedResources, keywargs \in LocatorOptionLists :
          (last'.op = "initialize" /\ ~HasUnknownKey(keywargs)
           /\ ~driver_operation'.simulate
           /\ Initialize(StrResource(TypedResources[T]), keywargs))
            => LET b == PolicyBackend(T, prefer_pyvisa', globals)
               IN  IF b = "none"
                   THEN /\ last'.status = "IOException"
                        /\ last'.msg = <<"Cannot use resource type %s", T>>
                        /\ last'.calls = <<>>
                        /\ interface' = interface
                   ELSE /\ Len(last'.calls) = 1
                        /\ last'.calls[1].m = ClassOf[b]
                        /\ last'.calls[1].args = <<TypedResources[T]>>
                        /\ last'.status = "ok" => interface'.cls = ClassOf[b]
                        /\ last'.status # "ok" => interface' = interface]_vars

\* reached: pyvisa bound for a USB resource although usbtmc is available,
\* the flag having been set by the prefer_pyvisa option
C20_Witness ==
    /\ last.op = "initialize"
    /\ last.status = "ok"
    /\ globals = {"usbtmc", "pyvisa"}
    /\ prefer_pyvisa
    /\ io_resource_descriptor = TypedResources["USB"]
    /\ interface.cls = ClassOf["pyvisa"]

\* C21: a resource string the grammar does not match is handed unchanged
\* to the PyVISA backend when that backend is available, whatever the
\* prefer_pyvisa flag; when it is not available initialize fails, binds
\* nothing and leaves the session as uninitialized as it was.
C21_UngrammaticalString ==
    [][\A r \in UngrammaticalStrings \cup {"VXI0::1::INSTR"},
          keywargs \in LocatorOptionLists :
          (last'.op = "initialize" /\ ~HasUnknownKey(keywargs)
           /\ ~driver_operation'.simulate
           /\ Initialize(StrResource(r), keywargs))
            => IF "pyvisa" \in globals
               THEN /\ Len(last'.calls) = 1
                    /\ last'.calls[1].m = ClassOf["pyvisa"]
                    /\ last'.calls[1].args = <<r>>
                    /\ last'.status = "ok"
                         => (interface'.cls = ClassOf["pyvisa"] /\ initialized')
               ELSE /\ last'.status = "IOException"
                    /\ last'.calls = <<>>
                    /\ interface' = interface
                    /\ initialized' = initialized]_vars

\* reached: PyVISA bound for 'TCPIP0::10.0.0.1::SOCKET' with vxi11 available
\* and the prefer_pyvisa flag not set
C21_Witness ==
    /\ last.op = "initialize"
    /\ last.status = "ok"
    /\ globals = {"vxi11", "pyvisa"}
    /\ ~prefer_pyvisa
    /\ io_resource_descriptor = "TCPIP0::10.0.0.1::SOCKET"
    /\ interface.cls = ClassOf["pyvisa"]

\* the object is an instrument of a native backend that is available
IsNativeInstrument(obj) ==
    \/ obj.cls = ClassOf["vxi11"] /\ "vxi11" \in globals
    \/ obj.cls = ClassOf["usbtmc"] /\ "usbtmc" \in globals

\* C22: a non-simulated initialize that receives an object binds it as the
\* transport if and only if it is an instrument of an available native
\* backend (vxi11, usbtmc) or it implements both read_raw and write_raw;
\* every other object is refused with an error and nothing is bound.
C22_ObjectResource ==
    [][\A resource \in {x \in LocatorResources : x.kind = "object"},
          keywargs \in LocatorOptionLists :
          (last'.op = "initialize" /\ ~HasUnknownKey(keywargs)
           /\ ~driver_operation'.simulate
           /\ Obtainable(resource) /\ Initialize(resource, keywargs))
            => IF \/ IsNativeInstrument(resource.obj)
                  \/ {"read_raw", "write_raw"} \subseteq resource.obj.methods
               THEN /\ last'.status = "ok"
                    /\ interface' = resource.obj
                    /\ initialized'
               ELSE /\ last'.status = "IOException"
                    /\ interface' = interface]_vars

\* ============================================ claims on the I/O operations
\* the session is initialized on a transport and does not simulate
Live == initialized /\ interface # NoInterface /\ ~driver_operation.simulate

\* the transport calls of the last operation that went to method m
CallsOf(m) == {i \in 1..Len(last.calls) : last.calls[i].m = m}

\* call i of the last operation was m(args); it returned, or it raised
Called(i, m, args) ==
    i <= Len(last.calls) /\ last.calls[i].m = m /\ last.calls[i].args = args
ReturnedAt(i) == last.calls[i].raised = ""

\* the last operation ended with the outcome of its call i, a read: the
\* bytes or the text the transport answered, or the error the call raised
EndsWithRead(i, values) ==
    /\ Len(last.calls) = i
    /\ IF ReturnedAt(i) THEN last.status = "ok" /\ last.value \in values
       ELSE last.status = last.calls[i].raised

\* C23: on an initialized, non-simulated session ask_raw(data, num) calls the
\* transport's ask_raw exactly once when the transport has it and returns
\* what it returns; when the transport lacks it, ask_raw calls
\* write_raw(data) and then read_raw(num), returns what the read returns, and
\* makes no read when the write fails.
C23_AskRaw ==
    (Live /\ last.op = "ask_raw") =>
        IF "ask_raw" \in interface.methods
        THEN /\ Called(1, "ask_raw", last.args)
             /\ Cardinality(CallsOf("ask_raw")) = 1
             /\ ReturnedAt(1) => EndsWithRead(1, {BytesV(r) : r \in Replies})
        ELSE /\ Called(1, "write_raw", <<last.args[1]>>)
             /\ IF ReturnedAt(1)
                THEN /\ Called(2, "read_raw", <<last.args[2]>>)
                     /\ EndsWithRead(2, {BytesV(r) : r \in Replies})
                ELSE Len(last.calls) = 1 /\ last.status = last.calls[1].raised

\* reached: the emulated ask_raw stopped at a write_raw that failed
C23_Witness ==
    /\ Live
    /\ last.op = "ask_raw"
    /\ "ask_raw" \notin interface.methods
    /\ Len(last.calls) = 1
    /\ last.calls[1].m = "write_raw"
    /\ last.status = "IOError"

\* C24: on a transport without a string write, write([c1, ..., cn]) makes
\* one write_raw per element, carrying encode(c1), ..., encode(cn) in list
\* order and nothing else; when the write of item k fails the items after it
\* are not written, the error reaches the caller, and the items before it
\* stay written.
C24_WriteList ==
    (Live /\ last.op = "write" /\ last.args[1].t = "list"
     /\ "write" \notin interface.methods) =>
        LET items == last.args[1].v
            n == Len(last.calls)
        IN  /\ n <= Len(items)
            /\ \A i \in 1..n : Called(i, "write_raw", <<BytesV(items[i].v)>>)
            /\ \A i \in 1..(n - 1) : ReturnedAt(i)
            /\ IF n > 0 /\ ~ReturnedAt(n)
               THEN last.status = last.calls[n].raised
               ELSE n = Len(items) /\ last.status = "ok"

\* reached: of two commands the first was written and the second failed
C24_Witness ==
    /\ Live
    /\ last.op = "write"
    /\ "write" \notin interface.methods
    /\ Len(last.args[1].v) = 2
    /\ Len(last.calls) = 2
    /\ ReturnedAt(1)
    /\ last.calls[2].raised = "IOError"
    /\ last.status = "IOError"

\* call j of an emulated ask of the commands items: the write of command
\* (j + 1) / 2 for an odd j, the read that follows it for an even j, each by
\* the transport's string method when it has one and by the raw one otherwise
AskStep(j, items, num) ==
    IF j % 2 = 1
    THEN IF "write" \in interface.methods
         THEN Called(j, "write", <<items[(j + 1) \div 2]>>)
         ELSE Called(j, "write_raw", <<BytesV(items[(j + 1) \div 2].v)>>)
    ELSE IF "read" \in interface.methods
         THEN Called(j, "read", <<num>>)
         ELSE Called(j, "read_raw", <<num>>)

\* what ask(command, num) returns on its own from a transport that answers
\* one of the replies and does not fail
AskAlone(command, num) ==
    {ask([failAt |-> 0, failKind |-> "", rx |-> r], <<>>, command, num.v[1]).value :
        r \in Replies}

\* C25: on a transport without ask, ask([c1, ..., cn]) returns the list of
\* the n results of ask(c1), ..., ask(cn) made one by one; the transport
\* sees write(c1), read, ..., write(cn), read in that order and nothing
\* else; a failure at element k ends the sequence and reaches the caller.
C25_AskList ==
    (Live /\ last.op = "ask" /\ last.args[1].t = "list"
     /\ "ask" \notin interface.methods) =>
        LET items == last.args[1].v
            num == last.args[2]
            n == Len(last.calls)
        IN  /\ n <= 2 * Len(items)
            /\ \A j \in 1..n : AskStep(j, items, num)
            /\ \A j \in 1..(n - 1) : ReturnedAt(j)
            /\ IF n > 0 /\ ~ReturnedAt(n)
               THEN last.status = last.calls[n].raised
               ELSE /\ n = 2 * Len(items)
                    /\ last.status = "ok"
                    /\ last.value.t = "list"
                    /\ Len(last.value.v) = Len(items)
                    /\ \A i \in 1..Len(items) :
                          last.value.v[i] \in AskAlone(items[i], num)

\* the IEEE-488.2 common command that emulates a bus operation
CommonCommand(op) ==
    CASE op = "read_stb" -> <<42, 83, 84, 66, 63>>
      [] op = "trigger" -> <<42, 84, 82, 71>>
      [] op = "clear" -> <<42, 67, 76, 83>>

\* call i carries the command to the transport: by its ask (for a query) or
\* its write when it has one, by write_raw otherwise
Sends(i, command, query) ==
    IF query /\ "ask" \in interface.methods
    THEN Called(i, "ask", <<StrV(command), IntV(-1)>>)
    ELSE IF "write" \in interface.methods
    THEN Called(i, "write", <<StrV(command)>>)
    ELSE Called(i, "write_raw", <<BytesV(command)>>)

\* C26: on an initialized, non-simulated session read_stb, trigger and clear
\* call the transport's own operation exactly once when the transport has
\* it, and then send no emulation command; when the transport lacks it or
\* answers NotImplementedError they ask '*STB?' and parse the reply as an
\* integer, write '*TRG' and write '*CLS' respectively.
C26_NativeOrEmulated ==
    (Live /\ last.op \in {"read_stb", "trigger", "clear"}) =>
        LET has == last.op \in interface.methods
            first == IF has THEN 2 ELSE 1
            n == Len(last.calls)
        IN  /\ has => (Called(1, last.op, <<>>) /\ Cardinality(CallsOf(last.op)) = 1)
            /\ IF has /\ last.calls[1].raised # "NotImplementedError"
               THEN /\ n = 1
                    /\ ReturnedAt(1) =>
                         /\ last.status = "ok"
                         /\ last.value = IF last.op = "read_stb"
                                         THEN IntV(NativeStatusByte) ELSE NoneV
               ELSE /\ Sends(first, CommonCommand(last.op), last.op = "read_stb")
                    /\ (\A i \in first..n : ReturnedAt(i)) =>
                         /\ last.status = "ok"
                         /\ last.value = IF last.op = "read_stb" THEN IntV(7) ELSE NoneV

\* C27: on an initialized, non-simulated session whose transport has no
\* remote (no local), remote() (local()) fails with
\* OperationNotSupportedException and nothing is sent to the transport.
C27_RemoteLocalUnsupported ==
    (Live /\ last.op \in {"remote", "local"} /\ last.op \notin interface.methods) =>
        /\ last.status = "OperationNotSupportedException"
        /\ last.calls = <<>>

\* C28: no retry in write_raw, read_raw, ask_raw, write, read, ask,
\* read_stb, trigger and clear: an error raised by a transport method, of
\* whatever kind, reaches the caller as it is, and the operation calls no
\* transport method after it.
C28_ErrorsPropagate ==
    (Live /\ last.op \in {"write_raw", "read_raw", "ask_raw", "write", "read", "ask",
                          "read_stb", "trigger", "clear"}) =>
        \A i \in 1..Len(last.calls) :
            ~ReturnedAt(i) => (i = Len(last.calls) /\ last.status = last.calls[i].raised)

\* C29: close leaves the session uninitialized with no transport bound and
\* raises nothing, also when the transport's own close raises; on a session
\* that is closed already or was never initialized it changes nothing and
\* calls no transport method.
C29_CloseAlwaysCloses ==
    [][last'.op = "close" =>
          /\ ~initialized'
          /\ interface' = NoInterface
          /\ last'.status = "ok"
          /\ (~initialized /\ interface = NoInterface) =>
                 /\ last'.calls = <<>>
                 /\ UNCHANGED <<globals, driver_operation, prefer_pyvisa,
                                io_resource_descriptor, cache_valid>>]_vars

\* reached: a closed session whose transport's close raised
C29_Witness ==
    /\ last.op = "close"
    /\ Len(last.calls) = 1
    /\ last.calls[1].raised = "TransportError"
    /\ last.status = "ok"
    /\ ~initialized
    /\ interface = NoInterface

\* the place of the first '#' in the bytes the transport holds, 0 when none
HashAt(stream) ==
    IF \E i \in 1..Len(stream) : stream[i] = HASH
    THEN CHOOSE i \in 1..Len(stream) :
             stream[i] = HASH /\ \A j \in 1..(i - 1) : stream[j] # HASH
    ELSE 0

\* the i-th transport call of the step is read_raw(num)
ReadOf(i, num) == Called(i, "read_raw", <<IntV(num)>>)

\* C30: _read_ieee_block reads the transport in this order: one byte at a
\* time until a '#' has been read, one byte for the digit count l, then for
\* l > 0 one read of l bytes that gives the decimal length num and one read
\* of num bytes, never more, and for l = 0 one unbounded read; it returns the
\* bytes of the last read.  A read that raises ends the sequence.
C30_StreamingReadOrder ==
    (Live /\ last.op = "read_ieee_block") =>
        LET stream == last.args[1].v
            n == Len(last.calls)
            h == HashAt(stream)
            l == stream[h + 1] - ZERO
            rest == Unserved(stream, h + 1)
            num == IntVal(Serve(rest, l))
        IN  /\ \A i \in 1..n : last.calls[i].m = "read_raw"
            /\ \A i \in 1..n : ~ReturnedAt(i) => i = n
            /\ \A i \in 1..n : (h = 0 \/ i <= h + 1) => ReadOf(i, 1)
            /\ (last.status = "ok" /\ stream = <<>>) =>
                   n = 1 /\ last.value = BytesV(<<>>)
            /\ (last.status = "ok" /\ stream # <<>>) =>
                   /\ h > 0
                   /\ IF l > 0
                      THEN /\ n = h + 3
                           /\ ReadOf(h + 2, l)
                           /\ ReadOf(h + 3, num)
                           /\ last.value = BytesV(Serve(Unserved(rest, l), num))
                           /\ Len(last.value.v) <= num
                      ELSE /\ n = h + 2
                           /\ ReadOf(h + 2, -1)
                           /\ last.value = BytesV(rest)
            /\ (h > 0 /\ n >= h + 2) =>
                   /\ ReadOf(h + 2, IF l > 0 THEN l ELSE -1)
                   /\ n <= (IF l > 0 THEN h + 3 ELSE h + 2)
                   /\ n = h + 3 => ReadOf(h + 3, num)

\* reached: a block of two bytes read from a transport that held three
C30_Witness ==
    /\ Live
    /\ last.op = "read_ieee_block"
    /\ last.status = "ok"
    /\ Len(last.calls) = 5
    /\ last.calls[5].args = <<IntV(2)>>
    /\ last.value = BytesV(<<CH_D, CH_A>>)
    /\ Len(last.args[1].v) = 7

\* ============================================ claims on records and lock
\* a step that takes the next entry of a list returned the oldest entry and
\* left the others, or returned '' and left the list empty
TakesOldest(before, after, value) ==
    IF before = <<>>
    THEN value = StrV(<<>>) /\ after = <<>>
    ELSE value = StrV(Head(before)) /\ after = Tail(before)

\* C31: next_coercion_record returns and removes the oldest coercion record,
\* so that records come out in the order they were noted, and returns ''
\* when none is left; next_interchange_warning does the same on the list of
\* warnings, and returns '' once clear_interchange_warnings has emptied it.
C31_OldestFirst ==
    [][/\ last'.op = "next_coercion_record" =>
              TakesOldest(driver_operation.coercion_records,
                          driver_operation'.coercion_records, last'.value)
       /\ last'.op = "next_interchange_warning" =>
              TakesOldest(driver_operation.interchange_warnings,
                          driver_operation'.interchange_warnings, last'.value)
       /\ last'.op = "clear_interchange_warnings" =>
              driver_operation'.interchange_warnings = <<>>]_vars

\* C32: the session lock is reentrant and counted.  The caller that holds
\* it can take it again; another caller cannot take it before it has been
\* released as many times as it was taken; each lock_object adds one hold
\* and each unlock_object removes one, and the lock is free again exactly
\* when the last hold is removed.
C32_ReentrantLock ==
    [][\A c \in Callers :
          /\ (lock.owner = c /\ lock.count < MaxDepth) => ENABLED lock_object(c)
          /\ (lock.owner \notin {"", c}) => ~ENABLED lock_object(c)
          /\ (last'.op = "lock_object" /\ last'.args = <<c>>) =>
                 /\ lock.owner \in {"", c}
                 /\ lock' = [owner |-> c, count |-> lock.count + 1]
          /\ (last'.op = "unlock_object" /\ last'.args = <<c>>) =>
                 /\ lock.owner = c
                 /\ lock'.count = lock.count - 1
                 /\ (lock'.owner = "") = (lock.count = 1)
                 /\ lock'.owner \in {"", c}
          /\ lock'.owner # lock.owner => (lock.count = 0 \/ lock'.count = 0)]_vars

\* reached: the lock taken twice by one caller and released once
C32_Witness ==
    /\ last.op = "unlock_object"
    /\ last.args = <<"t1">>
    /\ lock = [owner |-> "t1", count |-> 1]

\* ============================================ claims on the per-model drivers

\* the queries a list of transport calls delivered to the instrument
Queries(calls) ==
    Cardinality({i \in DOMAIN calls :
                     calls[i].m \in {"ask", "write", "write_raw"} /\ calls[i].raised = ""})

\* the step is a call of the getter of a on an initialized session
GetStep(a) == initialized /\ last'.op = "_get" /\ last'.args = <<a>>

\* the cache entry of a is valid
Valid(a) == CacheKey(a, -1) \in DOMAIN cache_valid /\ cache_valid[CacheKey(a, -1)]

\* C33 as stated: with the cache enabled and simulate false, two
\* consecutive gets of the same attribute deliver at most one query
C33_AtMostOneQuery ==
    [][\A a \in DOMAIN Getters :
           (/\ GetStep(a) /\ last.op = "_get" /\ last.args = <<a>>
            /\ driver_operation.cache /\ ~driver_operation.simulate)
           => Queries(last.calls) + Queries(last'.calls) <= 1]_vars

\* C33 amended: a get that finds the entry of its attribute valid does no
\* transport I/O, and a get that returns after its query leaves the entry
\* valid, so that the get following it does none; with the cache disabled
\* every get calls the transport; under simulation no get does
C33_CacheGating ==
    [][\A a \in DOMAIN Getters :
           GetStep(a) =>
               /\ (driver_operation.cache /\ ~driver_operation.simulate /\ Valid(a))
                      => last'.calls = <<>>
               /\ (driver_operation.cache /\ ~driver_operation.simulate
                   /\ last'.status = "ok" /\ last'.calls # <<>>)
                      => Valid(a)'
               /\ (~driver_operation.cache /\ ~driver_operation.simulate)
                      => last'.calls # <<>>
               /\ driver_operation.simulate => last'.calls = <<>>]_vars

\* a get answered from a valid entry, without any transport call
C33_Witness ==
    /\ initialized /\ driver_operation.cache /\ ~driver_operation.simulate
    /\ last.op = "_get" /\ last.args = <<"acquisition_type">>
    /\ last.status = "ok" /\ last.value = StrV(W.average) /\ last.calls = <<>>
    /\ Valid("acquisition_type")

\* C34: with the cache enabled a get that directly follows a successful
\* set(v) of the same attribute returns v, without raising and without
\* calling the transport
C34_SetThenGet ==
    [][\A a \in DOMAIN Setters :
           (/\ GetStep(a) /\ driver_operation.cache
            /\ last.op = "_set" /\ last.args[1] = a /\ last.status = "ok")
           => /\ last'.status = "ok"
              /\ last'.value = last.args[2]
              /\ last'.calls = <<>>]_vars

\* C35: a get that finds the entry of its attribute not valid, simulate
\* being false, delivers exactly one query; when it returns, it returns the
\* value it derived from the reply and the entry is valid; when it raises,
\* the entry is not valid
C35_FreshValue ==
    [][\A a \in DOMAIN Getters :
           (GetStep(a) /\ ~driver_operation.simulate /\ ~Valid(a))
           => /\ last'.status = "ok"
                     => /\ Queries(last'.calls) = 1
                        /\ last'.value = attributes'[Getters[a].stores]
                        /\ Valid(a)'
              /\ last'.status # "ok" => ~Valid(a)']_vars

\* ================================================== claims on the lifecycle

\* C36: the session never drops a bound transport without closing it: a
\* step that replaces or unbinds the transport calls close on it
C36_NeverDropped ==
    [][(interface # NoInterface /\ interface' # interface)
         => (\E i \in DOMAIN last'.calls : last'.calls[i].m = "close")]_vars

\* ================================================ claims on block decoding

\* C37: decode_ieee_block returns, with a value or an error, on every
\* buffer it is given
C37_DecodeTerminates == cpc = "decoded" => decoded.status # "diverges"

\* the part of C37 on _read_ieee_block: it returns on every transport
\* whose reads become empty at the end of the stream
C37_StreamingTerminates == last.op = "read_ieee_block" => last.status # "diverges"

\* a stream made of bytes without '#', a '#', a digit l in 1..9, l digits
\* that render num, and at least num more bytes
WellFormed(stream) ==
    LET h == HashAt(stream)
        l == stream[h + 1] - ZERO
        nstr == SubSeq(stream, h + 2, h + 1 + l)
    IN  /\ h > 0
        /\ Len(stream) > h
        /\ l \in 1..9
        /\ Len(stream) >= h + 1 + l
        /\ IntOk(nstr)
        /\ Len(stream) >= h + 1 + l + IntVal(nstr)

\* C38: on a well-formed stream served by a transport that returns what
\* is asked for, _read_ieee_block returns the payload decode_ieee_block
\* returns on the whole stream; on an empty stream both return b''
C38_StreamingAgrees ==
    (/\ Live /\ last.op = "read_ieee_block"
     /\ \A i \in DOMAIN last.calls : ReturnedAt(i)
     /\ (last.args[1].v = <<>> \/ WellFormed(last.args[1].v)))
    => LET whole == decode_ieee_block(FromSeq(last.args[1].v))
       IN  /\ last.status = "ok"
           /\ whole.status = "ok"
           /\ last.value = BytesV(ToSeq(whole.value))

\* reached: the block of 'A#12DAT' read from the transport, equal to the
\* block decoded from the seven bytes
C38_Witness ==
    /\ Live /\ last.op = "read_ieee_block" /\ last.status = "ok"
    /\ last.args[1].v = <<CH_A, HASH, ZERO + 1, ZERO + 2, CH_D, CH_A, CH_T>>
    /\ BytesV(ToSeq(decode_ieee_block(FromSeq(last.args[1].v)).value)) = last.value
    /\ last.value.v = <<CH_D, CH_A>>

\* ================================================= claims on the cache keys

\* C39: for two distinct pairs (tag, index), _set_cache_valid on one never
\* changes what _get_cache_valid returns for the other
C39_KeysIndependent ==
    [][\A tag \in AttributeTags, index \in AttributeIndexes :
           \A other \in AttributeTags, i \in AttributeIndexes :
               (/\ <<tag, index>> # <<other, i>>
                /\ (MarksValid(last', tag, index) \/ MarksInvalid(last', tag, index)))
               => /\ Reports(other, i, TRUE)' = Reports(other, i, TRUE)
                  /\ Marked(other, i)' = Marked(other, i)]_vars

\* ============================================ claims on a failed initialize

\* C40: a failed initialize leaves the bound transport, the initialized
\* flag, the resource descriptor and every cache validity flag as they
\* were; it changes at most the options, which hold what the keys decoded
\* before the failure assigned, the unknown key and those after it nothing
C40_FailedInitializeFrame ==
    [][(last'.op = "initialize" /\ last'.status # "ok")
         => /\ interface' = interface
            /\ initialized' = initialized
            /\ cache_valid' = cache_valid
            /\ io_resource_descriptor' = io_resource_descriptor
            /\ driver_operation'.interchange_warnings = driver_operation.interchange_warnings
            /\ driver_operation'.coercion_records = driver_operation.coercion_records
            /\ \E keywargs \in CacheOptionLists :
                   LET dec == decode_options(driver_operation, prefer_pyvisa, keywargs)
                   IN  /\ driver_operation' = dec.dop
                       /\ prefer_pyvisa' = dec.prefer
            /\ last'.status = "UnknownOptionException"
                   => \/ UNCHANGED <<driver_operation, prefer_pyvisa>>
                      \/ driver_operation' = [driver_operation EXCEPT !.cache = FALSE]]_vars

\* reached: an initialize refused for its second key on an initialized
\* session, the transport bound, an entry valid, the cache option turned off
\* by the first key
C40_Witness ==
    /\ last.op = "initialize" /\ last.status = "UnknownOptionException"
    /\ initialized /\ interface # NoInterface
    /\ ~driver_operation.cache
    /\ \E tag \in AttributeTags : Marked(tag, -1)

====
